---- MODULE Spec2Model ----
(***************************************************************************)
(* Lean Incremental Merkle Tree (vocdoni/lean-imt-go): the in-memory node  *)
(* matrix and its algorithms, the leaf persistence layer over a            *)
(* transactional key/value store, and the census overlay.                  *)
(*                                                                         *)
(* Element type N: a node is a tuple.  A leaf holding the integer v is the *)
(* 1-tuple <<v>>; the hash of a and b is the 2-tuple <<a, b>>.  The hash   *)
(* is the user's parameter of New; the pairing hash is the free one, so an *)
(* equality of nodes that holds here holds for every hash function.        *)
(***************************************************************************)
EXTENDS Integers, Sequences, FiniteSets, TLC

\* ------------------------------------------------------------------ bounds
\* leaves of an in-memory tree
MaxSize == 5
\* leaves of a tree on a store
MaxPersist == 3
\* leaf values are 0..MaxLeaf
MaxLeaf == 1
\* indices of an UpdateMany, entries of an AddBulk or of a dump
MaxBatch == 2
\* leaves of a tree UpdateMany is called on
MaxBatchSize == 3
\* leaves of a tree written while GenerateProof runs
MaxConc == 3
\* addresses are the bytes 0..MaxAddr
MaxAddr == 1
\* weights are 0..MaxWeight
MaxWeight == 1
\* leaves of a census filled by Add and AddBulk, indices of a dump
MaxCensus == 2
\* width in bits of a Go int (64 in the source)
IntBits == 4
\* const batchThreshold of DumpRange (10000 in the source)
batchThreshold == 3

LeafVals == 0..MaxLeaf

\* ------------------------------------------------------- element type N
Leaf(v) == <<v>>
NilN == <<-1>>
H(a, b) == <<a, b>>
Eq(a, b) == a = b

\* ------------------------------------------------------------ helpers
RECURSIVE BitLen(_)
BitLen(x) == IF x <= 0 THEN 0 ELSE 1 + BitLen(x \div 2)

ceilLog2(n) == IF n <= 1 THEN 0 ELSE BitLen(n - 1)

ensureIndex(s, index) ==
    IF index < Len(s) THEN s
    ELSE s \o [k \in 1..(index + 1 - Len(s)) |-> NilN]

\* s[index] = v on a Go slice (0-based index)
SetAt(s, index, v) == [s EXCEPT ![index + 1] = v]

\* Go's nodes[level][index]
At(ns, level, index) == ns[level + 1][index + 1]

EmptyTree == << <<>> >>

Size(ns) == Len(ns[1])
Depth(ns) == Len(ns) - 1
Leaves(ns) == ns[1]

rootUnsafe(ns) ==
    IF Len(ns) = 0 THEN [v |-> NilN, ok |-> FALSE]
    ELSE IF Len(ns[Len(ns)]) = 0 THEN [v |-> NilN, ok |-> FALSE]
    ELSE [v |-> ns[Len(ns)][1], ok |-> TRUE]

Root(ns) == rootUnsafe(ns)

\* ------------------------------------------------------------- Insert
RECURSIVE InsertLoop(_, _, _, _, _)
InsertLoop(ns, level, index, node, depth) ==
    IF level >= depth THEN [ns |-> ns, node |-> node]
    ELSE LET ns1 == IF level > 0
                    THEN [ns EXCEPT ![level + 1] =
                              SetAt(ensureIndex(@, index), index, node)]
                    ELSE ns
             node1 == IF index % 2 = 1
                      THEN H(At(ns1, level, index - 1), node)
                      ELSE node
         IN InsertLoop(ns1, level + 1, index \div 2, node1, depth)

\* mutant: the leaf is written at the last index in use
InsertOpOverLast(ns, leaf) ==
    IF Len(ns[1]) = 0 THEN [ns EXCEPT ![1] = <<leaf>>]
    ELSE [ns EXCEPT ![1] = SetAt(@, Len(@) - 1, leaf)]

InsertOp(ns, leaf) ==
    LET nextSize == Len(ns[1]) + 1
        n1 == IF Len(ns) - 1 < ceilLog2(nextSize) THEN Append(ns, <<>>) ELSE ns
        index == Len(n1[1])
        n2 == [n1 EXCEPT ![1] = SetAt(ensureIndex(@, index), index, leaf)]
        depth == Len(n2) - 1
        r == InsertLoop(n2, 0, index, leaf, depth)
    IN [r.ns EXCEPT ![depth + 1] = <<r.node>>]

\* Insert up to its first call of t.hash: called tells whether the loop calls
\* it at all, ns is the matrix at that call
RECURSIVE InsertUntilHash(_, _, _, _, _)
InsertUntilHash(ns, level, index, node, depth) ==
    IF level >= depth THEN [called |-> FALSE, ns |-> ns]
    ELSE LET ns1 == IF level > 0
                    THEN [ns EXCEPT ![level + 1] =
                              SetAt(ensureIndex(@, index), index, node)]
                    ELSE ns
         IN IF index % 2 = 1 THEN [called |-> TRUE, ns |-> ns1]
            ELSE InsertUntilHash(ns1, level + 1, index \div 2, node, depth)

InsertPanicOp(ns, leaf) ==
    LET nextSize == Len(ns[1]) + 1
        n1 == IF Len(ns) - 1 < ceilLog2(nextSize) THEN Append(ns, <<>>) ELSE ns
        index == Len(n1[1])
        n2 == [n1 EXCEPT ![1] = SetAt(ensureIndex(@, index), index, leaf)]
    IN InsertUntilHash(n2, 0, index, leaf, Len(n2) - 1)

\* one Insert per leaf, in order
RECURSIVE InsertEach(_, _, _)
InsertEach(ns, leaves, i) ==
    IF i > Len(leaves) THEN ns
    ELSE InsertEach(InsertOp(ns, leaves[i]), leaves, i + 1)

\* --------------------------------------------------------- InsertMany
\* mutant: a left child without a right sibling is hashed with itself
InsertManyParentDup(ns, level, index) ==
    LET li == index * 2
        ri == li + 1
        left == At(ns, level, li)
    IN IF ri < Len(ns[level + 1]) THEN H(left, At(ns, level, ri)) ELSE H(left, left)

\* the parent of nodes[level][2*index] and its right sibling, if any
InsertManyParent(ns, level, index) ==
    LET li == index * 2
        ri == li + 1
        left == At(ns, level, li)
    IN IF ri < Len(ns[level + 1]) THEN H(left, At(ns, level, ri)) ELSE left

RECURSIVE InsertManyInner(_, _, _, _)
InsertManyInner(ns, level, index, numNodes) ==
    IF index >= numNodes THEN ns
    ELSE LET parent == InsertManyParent(ns, level, index)
             ns1 == [ns EXCEPT ![level + 2] =
                         SetAt(ensureIndex(@, index), index, parent)]
         IN InsertManyInner(ns1, level, index + 1, numNodes)

RECURSIVE InsertManyLevels(_, _, _)
InsertManyLevels(ns, level, startIndex) ==
    IF level >= Len(ns) - 1 THEN ns
    ELSE LET numNodes == (Len(ns[level + 1]) + 1) \div 2
         IN InsertManyLevels(InsertManyInner(ns, level, startIndex, numNodes),
                             level + 1, startIndex \div 2)

\* mutant: the number of new levels is short by one
InsertManyOpShortLevels(ns, leaves) ==
    LET startIndex == Len(ns[1]) \div 2
        n1 == [ns EXCEPT ![1] = @ \o leaves]
        newLevels == ceilLog2(Len(n1[1])) - Len(n1)
        n2 == n1 \o [k \in 1..newLevels |-> <<>>]
    IN InsertManyLevels(n2, 0, startIndex)

\* mutant: the first parent index is rounded up
InsertManyOpStartRounded(ns, leaves) ==
    LET startIndex == (Len(ns[1]) + 1) \div 2
        n1 == [ns EXCEPT ![1] = @ \o leaves]
        newLevels == ceilLog2(Len(n1[1])) - (Len(n1) - 1)
        n2 == n1 \o [k \in 1..newLevels |-> <<>>]
    IN InsertManyLevels(n2, 0, startIndex)

InsertManyOp(ns, leaves) ==
    LET startIndex == Len(ns[1]) \div 2
        n1 == [ns EXCEPT ![1] = @ \o leaves]
        newLevels == ceilLog2(Len(n1[1])) - (Len(n1) - 1)
        n2 == n1 \o [k \in 1..newLevels |-> <<>>]
    IN InsertManyLevels(n2, 0, startIndex)

\* ------------------------------------------------------------- Update
RECURSIVE UpdateLoop(_, _, _, _, _)
UpdateLoop(ns, level, index, node, depth) ==
    IF level >= depth THEN [ns |-> ns, node |-> node]
    ELSE LET ns1 == IF level > 0
                    THEN [ns EXCEPT ![level + 1] =
                              SetAt(ensureIndex(@, index), index, node)]
                    ELSE ns
             ri == index + 1
             node1 == IF index % 2 = 1
                      THEN H(At(ns1, level, index - 1), node)
                      ELSE IF ri < Len(ns1[level + 1])
                           THEN H(node, At(ns1, level, ri))
                           ELSE node
         IN UpdateLoop(ns1, level + 1, index \div 2, node1, depth)

UpdateInRange(ns, index) == index >= 0 /\ index < Len(ns[1])

\* mutant: the path is rehashed as Insert does, ignoring right siblings
UpdateOpNoRight(ns, index, newLeaf) ==
    LET n1 == [ns EXCEPT ![1] = SetAt(@, index, newLeaf)]
        depth == Len(n1) - 1
        r == InsertLoop(n1, 0, index, newLeaf, depth)
    IN [r.ns EXCEPT ![depth + 1] = <<r.node>>]

\* mutant: the leaf is written and no ancestor is rehashed
UpdateOpLeafOnly(ns, index, newLeaf) ==
    [ns EXCEPT ![1] = SetAt(@, index, newLeaf)]

\* the matrix after a successful Update (index in range)
UpdateOp(ns, index, newLeaf) ==
    LET n1 == [ns EXCEPT ![1] = SetAt(@, index, newLeaf)]
        depth == Len(n1) - 1
        r == UpdateLoop(n1, 0, index, newLeaf, depth)
    IN [r.ns EXCEPT ![depth + 1] = <<r.node>>]

\* --------------------------------------------------------- UpdateMany
\* validation loop: "" when every index is valid, else the error raised first
RECURSIVE UpdateManyValidate(_, _, _, _)
UpdateManyValidate(ns, indices, i, seen) ==
    IF i > Len(indices) THEN ""
    ELSE IF indices[i] < 0 \/ indices[i] >= Len(ns[1]) THEN "out of range"
    ELSE IF indices[i] \in seen THEN "repeated"
    ELSE UpdateManyValidate(ns, indices, i + 1, seen \cup {indices[i]})

UpdateManyErrorAllowsRepeats(ns, indices, leaves) ==
    IF Len(indices) # Len(leaves) THEN "no correspondence"
    ELSE IF UpdateManyValidate(ns, indices, 1, {}) = "repeated" THEN ""
    ELSE UpdateManyValidate(ns, indices, 1, {})

UpdateManyError(ns, indices, leaves) ==
    IF Len(indices) # Len(leaves) THEN "no correspondence"
    ELSE UpdateManyValidate(ns, indices, 1, {})

RECURSIVE UpdateManyAssign(_, _, _, _)
UpdateManyAssign(ns, indices, leaves, i) ==
    IF i > Len(indices) THEN ns
    ELSE UpdateManyAssign([ns EXCEPT ![1] = SetAt(@, indices[i], leaves[i])],
                          indices, leaves, i + 1)

RECURSIVE UpdateManyParents(_, _, _)
UpdateManyParents(ns, level, modified) ==
    IF modified = {} THEN ns
    ELSE LET idx == CHOOSE m \in modified : \A o \in modified : m <= o
             li == 2 * idx
             ri == li + 1
             left == At(ns, level - 1, li)
             parent == IF ri < Len(ns[level])
                       THEN H(left, At(ns, level - 1, ri))
                       ELSE left
             ns1 == [ns EXCEPT ![level + 1] =
                         SetAt(ensureIndex(@, idx), idx, parent)]
         IN UpdateManyParents(ns1, level, modified \ {idx})

RECURSIVE UpdateManyLevels(_, _, _)
UpdateManyLevels(ns, level, modified) ==
    IF level > Len(ns) - 1 THEN ns
    ELSE UpdateManyLevels(UpdateManyParents(ns, level, modified), level + 1,
                          {m \div 2 : m \in modified})

\* mutant: only the parents at level 1 are rebuilt
UpdateManyOpOneLevel(ns, indices, leaves) ==
    IF Len(indices) = 0 \/ Len(ns) < 2 THEN UpdateManyAssign(ns, indices, leaves, 1)
    ELSE UpdateManyParents(UpdateManyAssign(ns, indices, leaves, 1), 1,
                           {indices[i] \div 2 : i \in 1..Len(indices)})

\* the matrix after a successful UpdateMany (validation passed)
UpdateManyOp(ns, indices, leaves) ==
    IF Len(indices) = 0 THEN ns
    ELSE UpdateManyLevels(UpdateManyAssign(ns, indices, leaves, 1), 1,
                          {indices[i] \div 2 : i \in 1..Len(indices)})

\* ------------------------------------------------------------- proofs
RECURSIVE Pow2(_)
Pow2(n) == IF n <= 0 THEN 1 ELSE 2 * Pow2(n - 1)

RECURSIVE GenerateProofLoop(_, _, _, _, _)
GenerateProofLoop(ns, level, index, siblings, pathBits) ==
    IF level >= Depth(ns) THEN [siblings |-> siblings, pathBits |-> pathBits]
    ELSE LET isRight == index % 2 = 1
             ri == index + 1
             haveSibling == isRight \/ ri < Len(ns[level + 1])
             sibling == IF isRight THEN At(ns, level, index - 1)
                        ELSE At(ns, level, ri)
         IN IF haveSibling
            THEN GenerateProofLoop(ns, level + 1, index \div 2,
                                   Append(siblings, sibling),
                                   Append(pathBits, IF isRight THEN 1 ELSE 0))
            ELSE GenerateProofLoop(ns, level + 1, index \div 2, siblings, pathBits)

RECURSIVE PackBits(_, _)
PackBits(pathBits, i) ==
    IF i > Len(pathBits) THEN 0
    ELSE (IF pathBits[i] = 1 THEN Pow2(i - 1) ELSE 0) + PackBits(pathBits, i + 1)

GenerateProofInRange(ns, index) == index >= 0 /\ index < Size(ns)

\* mutant: Index is the leaf index instead of the packed path bits
GenerateProofLeafIndex(ns, index) ==
    LET r == GenerateProofLoop(ns, 0, index, <<>>, <<>>)
    IN [Root |-> Root(ns).v,
        Leaf |-> At(ns, 0, index),
        Index |-> index,
        Siblings |-> r.siblings]

\* mutant: the path bits are packed most significant bit first
GenerateProofMsbFirst(ns, index) ==
    LET r == GenerateProofLoop(ns, 0, index, <<>>, <<>>)
        n == Len(r.pathBits)
    IN [Root |-> Root(ns).v,
        Leaf |-> At(ns, 0, index),
        Index |-> PackBits([k \in 1..n |-> r.pathBits[n + 1 - k]], 1),
        Siblings |-> r.siblings]

\* the proof returned for an index in range (no concurrent writer)
GenerateProof(ns, index) ==
    LET r == GenerateProofLoop(ns, 0, index, <<>>, <<>>)
    IN [Root |-> Root(ns).v,
        Leaf |-> At(ns, 0, index),
        Index |-> PackBits(r.pathBits, 1),
        Siblings |-> r.siblings]

RECURSIVE VerifyLoop(_, _, _)
VerifyLoop(proof, i, node) ==
    IF i >= Len(proof.Siblings) THEN node
    ELSE IF (proof.Index \div Pow2(i)) % 2 = 1
         THEN VerifyLoop(proof, i + 1, H(proof.Siblings[i + 1], node))
         ELSE VerifyLoop(proof, i + 1, H(node, proof.Siblings[i + 1]))

VerifyProofWith(proof) == Eq(VerifyLoop(proof, 0, proof.Leaf), proof.Root)

VerifyProof(proof) == VerifyProofWith(proof)

\* mutant: the second argument is left out of the sum
bigIntHasherDropsRight(a, b) == 3 * a

\* the reference hash of the tests, a*P1 + b*P2 on unbounded integers; the
\* multipliers 1315423911 and 2654435761 are scaled to 3 and 5 to keep the
\* nodes of the model within the integers of the model checker
bigIntHasher(a, b) == 3 * a + 5 * b

\* the *big.Int a node is when the tree is built with bigIntHasher
RECURSIVE BigInt(_)
BigInt(node) ==
    IF Len(node) = 1 THEN node[1]
    ELSE bigIntHasher(BigInt(node[1]), BigInt(node[2]))

\* a proof of a tree built with bigIntHasher
BigIntProof(proof) ==
    [Root |-> BigInt(proof.Root), Leaf |-> BigInt(proof.Leaf),
     Index |-> proof.Index,
     Siblings |-> [k \in 1..Len(proof.Siblings) |-> BigInt(proof.Siblings[k])]]

RECURSIVE VerifyBigIntLoop(_, _, _)
VerifyBigIntLoop(proof, i, node) ==
    IF i >= Len(proof.Siblings) THEN node
    ELSE IF (proof.Index \div Pow2(i)) % 2 = 1
         THEN VerifyBigIntLoop(proof, i + 1, bigIntHasher(proof.Siblings[i + 1], node))
         ELSE VerifyBigIntLoop(proof, i + 1, bigIntHasher(node, proof.Siblings[i + 1]))

\* VerifyProofWith(proof, hash, BigIntEqual), hash being nil or bigIntHasher
VerifyProofWithBigInt(proof, hash) ==
    IF hash = "nil" THEN FALSE
    ELSE VerifyBigIntLoop(proof, 0, proof.Leaf) = proof.Root

\* -------------------------------------------------------- leaf codec
RECURSIVE Bytes(_)
Bytes(n) == IF n <= 0 THEN <<>> ELSE Append(Bytes(n \div 256), n % 256)

RECURSIVE SetBytes(_)
SetBytes(data) ==
    IF Len(data) = 0 THEN 0
    ELSE 256 * SetBytes(SubSeq(data, 1, Len(data) - 1)) + data[Len(data)]

BigIntEncoder(n) ==
    IF n = NilN THEN <<>>
    ELSE LET bytes == Bytes(n[1])
         IN IF Len(bytes) = 0 THEN <<0>> ELSE bytes

BigIntDecoder(data) ==
    IF Len(data) = 0 THEN Leaf(0)
    ELSE IF Len(data) = 1 /\ data[1] = 0 THEN Leaf(0)
    ELSE Leaf(SetBytes(data))

\* decimal text of a non-negative integer, one digit per character
RECURSIVE intToString(_)
intToString(x) == IF x < 10 THEN <<x>> ELSE Append(intToString(x \div 10), x % 10)

encodeInt(n) == intToString(n)

RECURSIVE decodeInt(_)
decodeInt(b) ==
    IF Len(b) = 0 THEN 0
    ELSE LET digit == b[Len(b)]
             rest == decodeInt(SubSeq(b, 1, Len(b) - 1))
         IN IF digit >= 0 /\ digit <= 9 THEN rest * 10 + digit ELSE rest

\* ------------------------------------------------ key/value store (db)
\* a key is <<prefix, suffix>>, the store a function from its keys to bytes
LeafKey(i) == <<"leaf:", intToString(i)>>
MetaSizeKey == <<"meta:size", <<>>>>
MetaVersionKey == <<"meta:version", <<>>>>

EmptyStore == [k \in {} |-> <<>>]

Get(st, key) ==
    IF key \in DOMAIN st THEN [ok |-> TRUE, v |-> st[key]]
    ELSE [ok |-> FALSE, v |-> <<>>]

\* a write transaction: the pending content, committed as a whole
TxSet(tx, key, value) ==
    [k \in (DOMAIN tx) \cup {key} |-> IF k = key THEN value ELSE tx[k]]

TxDelete(tx, key) == [k \in (DOMAIN tx) \ {key} |-> tx[k]]

\* -------------------------------------------------------- persistence
RECURSIVE rebuildLevels(_, _, _)
rebuildLevels(ns, level, depth) ==
    IF level >= depth THEN ns
    ELSE LET currentLevel == ns[level + 1]
             numParents == (Len(currentLevel) + 1) \div 2
             parents == [i \in 1..numParents |->
                            IF 2 * (i - 1) + 1 < Len(currentLevel)
                            THEN H(currentLevel[2 * (i - 1) + 1],
                                   currentLevel[2 * (i - 1) + 2])
                            ELSE currentLevel[2 * (i - 1) + 1]]
         IN rebuildLevels([ns EXCEPT ![level + 2] = parents], level + 1, depth)

rebuildTree(ns) ==
    IF Len(ns[1]) = 0 THEN ns
    ELSE LET depth == ceilLog2(Len(ns[1]))
             init == [l \in 1..(depth + 1) |-> IF l = 1 THEN ns[1] ELSE <<>>]
         IN rebuildLevels(init, 0, depth)

\* Load: err is "" on success, else the error returned
Load(st) ==
    LET sizeBytes == Get(st, MetaSizeKey)
        size == decodeInt(sizeBytes.v)
    IN IF ~sizeBytes.ok THEN [err |-> "", ns |-> EmptyTree]
       ELSE IF size = 0 THEN [err |-> "", ns |-> EmptyTree]
       ELSE IF \E i \in 0..(size - 1) : ~Get(st, LeafKey(i)).ok
            THEN [err |-> "ErrKeyNotFound", ns |-> EmptyTree]
            ELSE [err |-> "",
                  ns |-> rebuildTree(<< [i \in 1..size |->
                                BigIntDecoder(Get(st, LeafKey(i - 1)).v)] >>)]

RECURSIVE SyncLeaves(_, _, _)
SyncLeaves(tx, leaves, i) ==
    IF i >= Len(leaves) THEN tx
    ELSE SyncLeaves(TxSet(tx, LeafKey(i), BigIntEncoder(leaves[i + 1])),
                    leaves, i + 1)

RECURSIVE DeleteLeaves(_, _, _)
DeleteLeaves(tx, i, previousSize) ==
    IF i >= previousSize THEN tx
    ELSE DeleteLeaves(TxDelete(tx, LeafKey(i)), i + 1, previousSize)

\* mutant: the leaf at index currentSize is kept
cleanupStaleLeavesAfter(st, tx, currentSize) ==
    LET sizeBytes == Get(st, MetaSizeKey)
    IN IF ~sizeBytes.ok THEN tx
       ELSE DeleteLeaves(tx, currentSize + 1, decodeInt(sizeBytes.v))

cleanupStaleLeaves(st, tx, currentSize) ==
    LET sizeBytes == Get(st, MetaSizeKey)
    IN IF ~sizeBytes.ok THEN tx
       ELSE DeleteLeaves(tx, currentSize, decodeInt(sizeBytes.v))

\* mutant: the leaf loop starts at index 1
SyncTxSkipFirst(st, ns) ==
    LET currentSize == Len(ns[1])
        tx1 == SyncLeaves(st, ns[1], 1)
        tx2 == cleanupStaleLeaves(st, tx1, currentSize)
        tx3 == TxSet(tx2, MetaSizeKey, encodeInt(currentSize))
    IN TxSet(tx3, MetaVersionKey, <<1>>)

\* the store after a Sync of a dirty tree whose transaction commits
SyncTx(st, ns) ==
    LET currentSize == Len(ns[1])
        tx1 == SyncLeaves(st, ns[1], 0)
        tx2 == cleanupStaleLeaves(st, tx1, currentSize)
        tx3 == TxSet(tx2, MetaSizeKey, encodeInt(currentSize))
    IN TxSet(tx3, MetaVersionKey, <<1>>)

\* the leaf writes of the transaction reach the store
SyncDiscardLeaked(st, ns) == SyncLeaves(st, ns[1], 0)

\* the store after a Sync that returns an error: tx.Discard() drops the writes
SyncDiscard(st, ns) == st

\* New on a store: Load, and an empty tree when Load reports ErrKeyNotFound
NewTree(st) ==
    LET l == Load(st)
    IN IF l.err = "" THEN [err |-> "", ns |-> l.ns]
       ELSE IF l.err = "ErrKeyNotFound" THEN [err |-> "", ns |-> EmptyTree]
       ELSE [err |-> l.err, ns |-> EmptyTree]

\* -------------------------------------------------------------- census
\* common.Address is a byte array (one byte here), a weight a big.Int
ZeroAddress == <<0>>
Big(address) == SetBytes(address)
Hex(address) == <<address[1] \div 16, address[1] % 16>>

\* widths of the two fields of a packed leaf (160 and 88 bits in the source),
\* scaled to the addresses and weights of the model
AddressBits == BitLen(MaxAddr) + 1
WeightBits == BitLen(MaxWeight) + 1

\* the width of the weight is not checked
PackPanicsAddressOnly(address, weight) == BitLen(address) > AddressBits

PackPanics(address, weight) ==
    BitLen(address) > AddressBits \/ BitLen(weight) > WeightBits

\* big.Int Or and And on non-negative values; x << n is x * Pow2(n) and
\* x >> n is x \div Pow2(n)
RECURSIVE Or(_, _)
Or(x, y) ==
    IF x = 0 /\ y = 0 THEN 0
    ELSE 2 * Or(x \div 2, y \div 2) + (IF x % 2 = 1 \/ y % 2 = 1 THEN 1 ELSE 0)

RECURSIVE And(_, _)
And(x, y) ==
    IF x = 0 \/ y = 0 THEN 0
    ELSE 2 * And(x \div 2, y \div 2) + (IF x % 2 = 1 /\ y % 2 = 1 THEN 1 ELSE 0)

\* the two fields change places
PackAddressWeightSwapped(address, weight) ==
    Leaf(Or(weight * Pow2(WeightBits), address))

\* (address << WeightBits) | weight
PackAddressWeight(address, weight) ==
    Leaf(Or(address * Pow2(WeightBits), weight))

\* the mask keeps one bit too few
UnpackAddressWeightShortMask(packed) ==
    LET weightMask == 1 * Pow2(WeightBits - 1) - 1
    IN  <<packed[1] \div Pow2(WeightBits), And(packed[1], weightMask)>>

\* (address, weight) of a packed leaf
UnpackAddressWeight(packed) ==
    LET weightMask == 1 * Pow2(WeightBits) - 1
    IN  <<packed[1] \div Pow2(WeightBits), And(packed[1], weightMask)>>

isEmptyParticipant(p) == p.Address = ZeroAddress /\ p.Weight = 0

\* m[key] = value on a Go map
MapSet(m, key, value) ==
    [x \in (DOMAIN m) \cup {key} |-> IF x = key THEN value ELSE m[x]]

AddrKey(hexAddr) == <<"idx:addr:", hexAddr>>
RevKey(index) == <<"idx:rev:", intToString(index)>>
WeightKey(hexAddr) == <<"weight:", hexAddr>>
CensusSizeKey == <<"meta:census_size", <<>>>>

\* the three keys of one census entry
SetEntry(tx, hexAddr, index, weight) ==
    LET tx1 == TxSet(tx, AddrKey(hexAddr), encodeInt(index))
        tx2 == TxSet(tx1, RevKey(index), hexAddr)
    IN TxSet(tx2, WeightKey(hexAddr), Bytes(weight))

\* meta:census_size is not written
persistEntryNoSize(st, hexAddr, index, weight, size) ==
    SetEntry(st, hexAddr, index, weight)

\* the weight key is written only when there is none
persistEntryKeepsWeight(st, hexAddr, index, weight, size) ==
    LET tx1 == TxSet(st, AddrKey(hexAddr), encodeInt(index))
        tx2 == TxSet(tx1, RevKey(index), hexAddr)
        tx3 == IF Get(st, WeightKey(hexAddr)).ok THEN tx2
               ELSE TxSet(tx2, WeightKey(hexAddr), Bytes(weight))
    IN TxSet(tx3, CensusSizeKey, encodeInt(size))

\* the store after persistEntry commits; size is c.tree.Size()
persistEntry(st, hexAddr, index, weight, size) ==
    TxSet(SetEntry(st, hexAddr, index, weight), CensusSizeKey, encodeInt(size))

RECURSIVE persistBulkLoop(_, _, _, _, _)
persistBulkLoop(tx, hexAddrs, weights, startingIndex, i) ==
    IF i >= Len(hexAddrs) THEN tx
    ELSE persistBulkLoop(SetEntry(tx, hexAddrs[i + 1], startingIndex + i,
                                  weights[i + 1]),
                         hexAddrs, weights, startingIndex, i + 1)

persistBulkEntries(st, hexAddrs, weights, startingIndex, size) ==
    TxSet(persistBulkLoop(st, hexAddrs, weights, startingIndex, 0),
          CensusSizeKey, encodeInt(size))

RECURSIVE persistImportedLoop(_, _, _, _, _)
persistImportedLoop(tx, hexAddrs, weights, addressIndex, i) ==
    IF i >= Len(hexAddrs) THEN tx
    ELSE persistImportedLoop(SetEntry(tx, hexAddrs[i + 1],
                                      addressIndex[hexAddrs[i + 1]],
                                      weights[i + 1]),
                             hexAddrs, weights, addressIndex, i + 1)

persistImportedData(st, hexAddrs, weights, addressIndex, size) ==
    TxSet(persistImportedLoop(st, hexAddrs, weights, addressIndex, 0),
          CensusSizeKey, encodeInt(size))

\* the store after resetPersistentState commits (c.tree is never nil)
resetPersistentState(st, ns, c) ==
    LET removed ==
            {LeafKey(i) : i \in 0..(Size(ns) - 1)}
            \cup {MetaSizeKey, MetaVersionKey, CensusSizeKey}
            \cup {AddrKey(addr) : addr \in DOMAIN c.addressIndex}
            \cup {WeightKey(addr) : addr \in DOMAIN c.addressIndex}
            \cup {RevKey(idx) : idx \in DOMAIN c.indexToAddress}
    IN [k \in (DOMAIN st) \ removed |-> st[k]]

\* the loop of CensusIMT.Load over the reverse mappings
RECURSIVE CensusLoadLoop(_, _, _, _)
CensusLoadLoop(st, c, i, censusSize) ==
    IF i >= censusSize THEN [err |-> "", c |-> c]
    ELSE LET addrBytes == Get(st, RevKey(i))
             hexAddr == addrBytes.v
             weightBytes == Get(st, WeightKey(hexAddr))
         IN IF ~addrBytes.ok THEN [err |-> "corrupted index", c |-> c]
            ELSE IF ~weightBytes.ok THEN [err |-> "missing weight", c |-> c]
            ELSE CensusLoadLoop(
                     st,
                     [c EXCEPT !.addressIndex = MapSet(@, hexAddr, i),
                               !.indexToAddress = MapSet(@, i, hexAddr),
                               !.weights = MapSet(@, hexAddr, SetBytes(weightBytes.v))],
                     i + 1, censusSize)

\* CensusIMT.Load into the empty maps c
CensusLoad(st, c) ==
    LET sizeBytes == Get(st, CensusSizeKey)
    IN IF ~sizeBytes.ok THEN [err |-> "", c |-> c]
       ELSE CensusLoadLoop(st, c, 0, decodeInt(sizeBytes.v))

\* NewCensusIMT(database, hasher) on a store: the tree, then the maps
NewCensusIMT(st, c) ==
    LET tree == NewTree(st)
        loaded == CensusLoad(st, c)
    IN IF tree.err # "" THEN [err |-> tree.err, ns |-> EmptyTree, c |-> c]
       ELSE IF loaded.err # "" THEN [err |-> loaded.err, ns |-> EmptyTree, c |-> c]
       ELSE [err |-> "", ns |-> tree.ns, c |-> loaded.c]

Has(c, address) == Hex(address) \in DOMAIN c.addressIndex

GetWeight(c, address) ==
    IF Hex(address) \in DOMAIN c.weights
    THEN [v |-> c.weights[Hex(address)], ok |-> TRUE]
    ELSE [v |-> 0, ok |-> FALSE]

\* common.HexToAddress
HexToAddress(hexAddr) == <<hexAddr[1] * 16 + hexAddr[2]>>

\* the value of an int expression: two's complement on IntBits bits
WrapInt(x) == ((x + Pow2(IntBits - 1)) % Pow2(IntBits)) - Pow2(IntBits - 1)

\* the entries dumpRangeSingleLock and dumpRangeBatched write for
\* start <= i < end while no writer runs between the batches
dumpRangeEntries(c, start, end) ==
    [k \in 1..(end - start) |->
        IF (start + k - 1) \notin DOMAIN c.indexToAddress
        THEN [Index |-> start + k - 1, Address |-> ZeroAddress, Weight |-> 0]
        ELSE [Index |-> start + k - 1,
              Address |-> HexToAddress(c.indexToAddress[start + k - 1]),
              Weight |-> c.weights[c.indexToAddress[start + k - 1]]]]

\* the participants read from DumpRange(offset, limit), and from Dump() as
\* DumpRange(0, -1); panic where make gets a negative capacity
DumpRange(ns, c, offset, limit) ==
    LET size == Size(ns)
        off == IF offset < 0 THEN 0 ELSE offset
        sum == WrapInt(off + limit)
        end == IF limit >= 0 THEN (IF sum < size THEN sum ELSE size) ELSE size
        rangeSize == WrapInt(end - off)
    IN IF off >= size THEN [panic |-> FALSE, entries |-> <<>>]
       ELSE IF limit >= 0 /\ rangeSize <= batchThreshold
       THEN [panic |-> end - off < 0, entries |-> dumpRangeEntries(c, off, end)]
       ELSE [panic |-> FALSE, entries |-> dumpRangeEntries(c, off, end)]

\* the dump DumpAll returns for a census with a root
DumpAll(ns, c) ==
    [Root |-> Root(ns).v,
     Participants |->
        [k \in 1..Size(ns) |->
            IF (k - 1) \notin DOMAIN c.indexToAddress
            THEN [Index |-> k - 1, Address |-> ZeroAddress, Weight |-> 0]
            ELSE [Index |-> k - 1,
                  Address |-> HexToAddress(c.indexToAddress[k - 1]),
                  Weight |-> c.weights[c.indexToAddress[k - 1]]]]]

\* CensusIMT.GenerateProof: the CensusProof, or the error and a nil proof
CensusGenerateProof(ns, c, address) ==
    LET hexAddr == Hex(address)
    IN IF hexAddr \notin DOMAIN c.addressIndex
       THEN [err |-> "ErrAddressNotFound", proof |-> NilN]
       ELSE IF hexAddr \notin DOMAIN c.weights
       THEN [err |-> "ErrDataCorruption", proof |-> NilN]
       ELSE IF ~GenerateProofInRange(ns, c.addressIndex[hexAddr])
       THEN [err |-> "out of range", proof |-> NilN]
       ELSE LET treeProof == GenerateProof(ns, c.addressIndex[hexAddr])
            IN [err |-> "",
                proof |-> [Root |-> treeProof.Root, Index |-> treeProof.Index,
                           Address |-> address, Weight |-> c.weights[hexAddr],
                           Siblings |-> treeProof.Siblings]]

\* slices.SortFunc by Index: the order of equal indices is not specified
SortFunc(participants) ==
    {[i \in 1..Len(participants) |-> participants[perm[i]]] :
        perm \in {q \in [1..Len(participants) -> 1..Len(participants)] :
                     /\ \A i, j \in 1..Len(participants) : i # j => q[i] # q[j]
                     /\ \A i, j \in 1..Len(participants) :
                           i < j => participants[q[i]].Index
                                       <= participants[q[j]].Index}}

\* the insertion loop of ImportAll and Import over the sorted participants
RECURSIVE ImportLoop(_, _, _, _, _, _, _)
ImportLoop(ns, c, participants, i, expectedIndex, hexAddrs, weights) ==
    IF i > Len(participants)
    THEN [ns |-> ns, c |-> c, hexAddrs |-> hexAddrs, weights |-> weights]
    ELSE LET p == participants[i]
             gaps == IF expectedIndex < p.Index THEN p.Index - expectedIndex ELSE 0
             ns1 == InsertEach(ns, [k \in 1..gaps |-> Leaf(0)], 1)
             hexAddr == Hex(p.Address)
         IN IF isEmptyParticipant(p)
            THEN ImportLoop(InsertOp(ns1, Leaf(0)), c, participants, i + 1,
                            expectedIndex + gaps + 1, hexAddrs, weights)
            ELSE ImportLoop(
                     InsertOp(ns1, PackAddressWeight(Big(p.Address), p.Weight)),
                     [c EXCEPT !.addressIndex = MapSet(@, hexAddr, p.Index),
                               !.indexToAddress = MapSet(@, p.Index, hexAddr),
                               !.weights = MapSet(@, hexAddr, p.Weight)],
                     participants, i + 1, expectedIndex + gaps + 1,
                     Append(hexAddrs, hexAddr), Append(weights, p.Weight))

\* ---------------------------------------------------------------- state
VARIABLES
    nodes,          \* LeanIMT.nodes: the node matrix of the tree handle
    dirty,          \* LeanIMT.dirty
    db,             \* LeanIMT.db: "nil" (in-memory), "open" or "closed"
    store,          \* committed content of the key/value store
    seqNodes,       \* matrix of an equal second tree, driven one leaf at a time
    last,           \* the last call on the handle and whether it succeeded
    census,         \* CensusIMT: addressIndex, indexToAddress, weights
    reader          \* a goroutine inside LeanIMT.GenerateProof: its locals

vars == <<nodes, dirty, db, store, seqNodes, last, census, reader>>

LeafNodes == {Leaf(v) : v \in LeafVals}
\* the batches of InsertMany that fit in a tree with room for max more leaves
InsertSeqs(max) == UNION {[1..k -> LeafNodes] : k \in 0..max}
IndexVals == (-1)..MaxSize

\* the arguments of UpdateMany on a tree of n leaves: index n is out of range;
\* the k new leaves are consecutive values starting at v
IndexSeqs(n) == UNION {[1..k -> 0..n] : k \in 0..MaxBatch}
BatchLeaves(k, v) == [i \in 1..k |-> Leaf((v + i - 1) % (MaxLeaf + 1))]
UpdateManyArgs(n) ==
    {<<indices, BatchLeaves(Len(indices), v)>> :
        indices \in IndexSeqs(n), v \in LeafVals}
    \cup {<<<<i>>, <<>>>> : i \in (-1)..n}
    \cup {<<<<-1>>, <<leaf>>>> : leaf \in LeafNodes}
    \cup {<<<<>>, <<leaf>>>> : leaf \in LeafNodes}

RECURSIVE UpdateEach(_, _, _, _)
UpdateEach(ns, indices, leaves, i) ==
    IF i > Len(indices) THEN ns
    ELSE UpdateEach(UpdateOp(ns, indices[i], leaves[i]), indices, leaves, i + 1)

\* the last call: n is Size() before a successful InsertMany and the meta:size
\* a committing Sync found in the store, k the number of indices of a
\* successful UpdateMany and of participants of a successful import, err the
\* error of a failed census call
Result(op, ok, n, k) == [op |-> op, ok |-> ok, n |-> n, k |-> k, err |-> ""]
Failure(op, err) == [op |-> op, ok |-> FALSE, n |-> 0, k |-> 0, err |-> err]

\* make(map[K]V)
EmptyMap == [k \in {} |-> 0]

\* failed: a call on the census has returned an error
EmptyCensus ==
    [addressIndex |-> EmptyMap, indexToAddress |-> EmptyMap, weights |-> EmptyMap,
     failed |-> FALSE]

\* var empty MerkleProof[N]
EmptyProof == [Root |-> NilN, Leaf |-> NilN, Index |-> 0, Siblings |-> <<>>]

\* no call of GenerateProof is running
IdleReader ==
    [pc |-> "idle", arg |-> 0, index |-> 0, level |-> 0, leaf |-> NilN,
     siblings |-> <<>>, pathBits |-> <<>>, proof |-> EmptyProof, ok |-> TRUE]

InitTree(d) ==
    /\ nodes = EmptyTree
    /\ dirty = FALSE
    /\ db = d
    /\ store = EmptyStore
    /\ seqNodes = EmptyTree
    /\ last = Result("New", TRUE, 0, 0)
    /\ census = EmptyCensus
    /\ reader = IdleReader

\* New(hash, eq, nil, nil, nil): an in-memory tree
Init == InitTree("nil")

Insert(leaf) ==
    /\ db # "closed"
    /\ nodes' = InsertOp(nodes, leaf)
    /\ seqNodes' = InsertOp(seqNodes, leaf)
    /\ dirty' = TRUE
    /\ last' = Result("Insert", TRUE, 0, 0)
    /\ UNCHANGED <<db, store, census, reader>>

InsertMany(leaves) ==
    /\ db # "closed"
    /\ IF Len(leaves) = 0
       THEN /\ last' = Result("InsertMany", FALSE, 0, 0)
            /\ UNCHANGED <<nodes, seqNodes, dirty>>
       ELSE /\ nodes' = InsertManyOp(nodes, leaves)
            /\ seqNodes' = InsertEach(seqNodes, leaves, 1)
            /\ dirty' = TRUE
            /\ last' = Result("InsertMany", TRUE, Size(nodes), 0)
    /\ UNCHANGED <<db, store, census, reader>>

\* the record of a call that takes a leaf index: range tells whether the
\* index lies outside [0, Size())
IndexResult(op, ok, index) ==
    [op |-> op, ok |-> ok, n |-> 0, k |-> 0, err |-> "",
     range |-> index \notin 0..(Size(nodes) - 1)]

UpdateMarksDirtyFirst(index, newLeaf) ==
    /\ db # "closed"
    /\ IF ~UpdateInRange(nodes, index)
       THEN /\ last' = IndexResult("Update", FALSE, index)
            /\ dirty' = TRUE
            /\ UNCHANGED <<nodes, seqNodes>>
       ELSE /\ nodes' = UpdateOp(nodes, index, newLeaf)
            /\ seqNodes' = UpdateOp(seqNodes, index, newLeaf)
            /\ dirty' = TRUE
            /\ last' = IndexResult("Update", TRUE, index)
    /\ UNCHANGED <<db, store, census, reader>>

Update(index, newLeaf) ==
    /\ db # "closed"
    /\ IF ~UpdateInRange(nodes, index)
       THEN /\ last' = IndexResult("Update", FALSE, index)
            /\ UNCHANGED <<nodes, seqNodes, dirty>>
       ELSE /\ nodes' = UpdateOp(nodes, index, newLeaf)
            /\ seqNodes' = UpdateOp(seqNodes, index, newLeaf)
            /\ dirty' = TRUE
            /\ last' = IndexResult("Update", TRUE, index)
    /\ UNCHANGED <<db, store, census, reader>>

\* t.GenerateProof(index) with no writer running beside it: an error for an
\* index out of range, else the proof; the call writes no field of the tree
GenerateProofOnce(index) ==
    /\ db # "closed"
    /\ last' = IndexResult("GenerateProof", GenerateProofInRange(nodes, index), index)
    /\ UNCHANGED <<nodes, seqNodes, dirty, db, store, census, reader>>

\* the record of an UpdateMany call: n and k are len(indices) and len(leaves),
\* range and repeated tell whether some index of the call lies outside
\* [0, Size()) and whether some index occurs twice
UpdateManyResult(indices, leaves, err) ==
    [op |-> "UpdateMany", ok |-> err = "", n |-> Len(indices),
     k |-> Len(leaves), err |-> err,
     range |-> \E i \in 1..Len(indices) :
                   indices[i] < 0 \/ indices[i] >= Size(nodes),
     repeated |-> \E i, j \in 1..Len(indices) :
                      i # j /\ indices[i] = indices[j]]

UpdateMany(indices, leaves) ==
    /\ db # "closed"
    /\ \E err \in {UpdateManyError(nodes, indices, leaves)} :
          /\ last' = UpdateManyResult(indices, leaves, err)
          /\ IF err # ""
             THEN UNCHANGED <<nodes, seqNodes, dirty>>
             ELSE /\ nodes' = UpdateManyOp(nodes, indices, leaves)
                  /\ seqNodes' = UpdateEach(seqNodes, indices, leaves, 1)
                  /\ dirty' = IF Len(indices) = 0 THEN dirty ELSE TRUE
    /\ UNCHANGED <<db, store, census, reader>>

\* the effect of t.Sync() on store and dirty (the transaction commits)
SyncEffect ==
    IF db = "nil" \/ ~dirty
    THEN UNCHANGED <<store, dirty>>
    ELSE /\ store' = SyncTx(store, nodes)
         /\ dirty' = FALSE

\* the meta:size a Sync that commits finds in the store, 0 when there is none
\* or when Sync has nothing to commit
PreviousSize ==
    IF db = "nil" \/ ~dirty \/ ~Get(store, MetaSizeKey).ok THEN 0
    ELSE decodeInt(Get(store, MetaSizeKey).v)

Sync ==
    /\ db # "closed"
    /\ SyncEffect
    /\ last' = Result("Sync", TRUE, PreviousSize, 0)
    /\ UNCHANGED <<nodes, seqNodes, db, census, reader>>

\* t.Sync() on a dirty persistent tree with an error from the encoder, from
\* Set or Delete of the transaction or from Commit
SyncFail ==
    /\ db = "open"
    /\ dirty
    /\ store' = SyncDiscard(store, nodes)
    /\ last' = Failure("Sync", "error")
    /\ UNCHANGED <<nodes, dirty, seqNodes, db, census, reader>>

Close ==
    /\ db # "closed"
    /\ SyncEffect
    /\ db' = IF db = "nil" THEN "nil" ELSE "closed"
    /\ last' = Result("Close", TRUE, 0, 0)
    /\ UNCHANGED <<nodes, seqNodes, census, reader>>

\* t.Close() on a handle whose database the first Close has closed: t.Sync()
\* finds nothing to commit and leaves the database alone, then t.db.Close()
\* runs on the closed database.  The handle keeps no record of the first
\* Close; what the second db.Close() returns is the database's choice.
CloseAgain ==
    /\ db = "closed"
    /\ ~dirty
    /\ \E ok \in BOOLEAN :
          last' = IF ok THEN Result("Close", TRUE, 0, 0)
                  ELSE Failure("Close", "closed")
    /\ UNCHANGED <<nodes, seqNodes, dirty, db, store, census, reader>>

\* New(hash, eq, storage, encoder, decoder) on the store of a closed handle
New ==
    /\ db = "closed"
    /\ LET t == NewTree(store)
       IN IF t.err = ""
          THEN /\ nodes' = t.ns
               /\ seqNodes' = t.ns
               /\ dirty' = FALSE
               /\ db' = "open"
               /\ last' = Result("New", TRUE, 0, 0)
          ELSE /\ last' = Result("New", FALSE, 0, 0)
               /\ UNCHANGED <<nodes, seqNodes, dirty, db>>
    /\ UNCHANGED <<store, census, reader>>

\* t.Load() on an open handle: dirty is cleared only on the path that loads
\* leaves, not where meta:size is missing or 0
LoadCall ==
    /\ db = "open"
    /\ \E l \in {Load(store)} :
          IF l.err = ""
          THEN /\ nodes' = l.ns
               /\ seqNodes' = l.ns
               /\ dirty' = IF Size(l.ns) = 0 THEN dirty ELSE FALSE
               /\ last' = Result("Load", TRUE, 0, 0)
          ELSE /\ last' = Result("Load", FALSE, 0, 0)
               /\ UNCHANGED <<nodes, seqNodes, dirty>>
    /\ UNCHANGED <<db, store, census, reader>>

\* the in-memory tree handle
Next ==
    \/ \E leaf \in LeafNodes : Size(nodes) < MaxSize /\ Insert(leaf)
    \/ \E leaves \in InsertSeqs(MaxSize - Size(nodes)) : InsertMany(leaves)
    \/ \E index \in IndexVals, newLeaf \in LeafNodes : Update(index, newLeaf)
    \/ \E args \in UpdateManyArgs(Size(nodes)) :
          Size(nodes) <= MaxBatchSize /\ UpdateMany(args[1], args[2])
    \/ \E index \in IndexVals : GenerateProofOnce(index)
    \/ Sync
    \/ Close

Spec == Init /\ [][Next]_vars

\* the persistent tree handle: New(hash, eq, storage, encoder, decoder)
InitPersist == InitTree("open")

NextPersist ==
    \/ \E leaf \in LeafNodes : Size(nodes) < MaxPersist /\ Insert(leaf)
    \/ \E leaves \in InsertSeqs(MaxPersist - Size(nodes)) : InsertMany(leaves)
    \/ \E index \in IndexVals, newLeaf \in LeafNodes : Update(index, newLeaf)
    \/ Sync
    \/ SyncFail
    \/ LoadCall
    \/ Close
    \/ CloseAgain
    \/ New

SpecPersist == InitPersist /\ [][NextPersist]_vars

\* the persistent tree handle with UpdateMany
NextDirty ==
    \/ NextPersist
    \/ \E args \in UpdateManyArgs(Size(nodes)) : UpdateMany(args[1], args[2])

SpecDirty == InitPersist /\ [][NextDirty]_vars

\* tree2.nodes = [][]N{make([]N, 0)} on a reopened handle (in-package code)
ResetNodes ==
    /\ db = "open"
    /\ nodes' = EmptyTree
    /\ seqNodes' = EmptyTree
    /\ last' = Result("ResetNodes", TRUE, 0, 0)
    /\ UNCHANGED <<dirty, db, store, census, reader>>

\* a persistent handle whose leaves are replaced by fewer leaves
NextShrink ==
    \/ \E leaf \in LeafNodes : Size(nodes) < MaxPersist /\ Insert(leaf)
    \/ \E leaves \in InsertSeqs(MaxPersist - Size(nodes)) : InsertMany(leaves)
    \/ Sync
    \/ Close
    \/ New
    \/ ResetNodes

SpecShrink == InitPersist /\ [][NextShrink]_vars

\* ------------------------------------- GenerateProof beside the writers
\* A writer holds t.mu for its whole call and is one step.  GenerateProof
\* takes t.mu only inside t.Size(), t.Depth() and t.Root(); each of these and
\* each read of t.nodes is a step of its own.
treeVars == <<nodes, dirty, db, store, seqNodes, last, census>>

\* index < 0 || index >= t.Size()
GenerateProofCall(index) ==
    /\ reader.pc = "idle"
    /\ reader' = IF index < 0 \/ index >= Size(nodes)
                 THEN [IdleReader EXCEPT !.pc = "done", !.arg = index, !.ok = FALSE]
                 ELSE [IdleReader EXCEPT !.pc = "leaf", !.arg = index,
                                         !.index = index]
    /\ UNCHANGED treeVars

\* leaf := t.nodes[0][index]
GenerateProofLeaf ==
    /\ reader.pc = "leaf"
    /\ reader' = [reader EXCEPT !.pc = "cond",
                                !.leaf = At(nodes, 0, reader.index)]
    /\ UNCHANGED treeVars

\* level < t.Depth()
GenerateProofCond ==
    /\ reader.pc = "cond"
    /\ reader' = [reader EXCEPT
                     !.pc = IF reader.level < Depth(nodes) THEN "body" ELSE "root"]
    /\ UNCHANGED treeVars

\* the body of the level loop
GenerateProofBody ==
    /\ reader.pc = "body"
    /\ LET index == reader.index
           level == reader.level
           isRight == index % 2 = 1
           ri == index + 1
           haveSibling == isRight \/ ri < Len(nodes[level + 1])
           sibling == IF isRight THEN At(nodes, level, index - 1)
                      ELSE At(nodes, level, ri)
       IN reader' = [reader EXCEPT
                        !.pc = "cond",
                        !.siblings = IF haveSibling THEN Append(@, sibling) ELSE @,
                        !.pathBits = IF haveSibling
                                     THEN Append(@, IF isRight THEN 1 ELSE 0)
                                     ELSE @,
                        !.index = index \div 2,
                        !.level = level + 1]
    /\ UNCHANGED treeVars

\* root, _ := t.Root() and the returned MerkleProof
GenerateProofRoot ==
    /\ reader.pc = "root"
    /\ reader' = [reader EXCEPT
                     !.pc = "done",
                     !.proof = [Root |-> Root(nodes).v,
                                Leaf |-> reader.leaf,
                                Index |-> PackBits(reader.pathBits, 1),
                                Siblings |-> reader.siblings]]
    /\ UNCHANGED treeVars

\* the caller has the result
GenerateProofReturn ==
    /\ reader.pc = "done"
    /\ reader' = IdleReader
    /\ UNCHANGED treeVars

\* one goroutine in GenerateProof, the others writing
NextConc ==
    \/ \E leaf \in LeafNodes : Size(nodes) < MaxConc /\ Insert(leaf)
    \/ \E leaves \in InsertSeqs(MaxConc - Size(nodes)) : InsertMany(leaves)
    \/ \E index \in 0..(MaxConc - 1), newLeaf \in LeafNodes : Update(index, newLeaf)
    \/ \E args \in UpdateManyArgs(Size(nodes)) : UpdateMany(args[1], args[2])
    \/ \E index \in (-1)..MaxConc : GenerateProofCall(index)
    \/ GenerateProofLeaf
    \/ GenerateProofCond
    \/ GenerateProofBody
    \/ GenerateProofRoot
    \/ GenerateProofReturn

SpecConc == Init /\ [][NextConc]_vars

\* ------------------------------------------------------ census handle
Addresses == {<<b>> : b \in 0..MaxAddr}
Weights == 0..MaxWeight
AddressSeqs(max) == UNION {[1..k -> Addresses] : k \in 0..max}
WeightSeqs(max) == UNION {[1..k -> Weights] : k \in 0..max}
Participants == [Index : 0..(MaxCensus - 1), Address : Addresses, Weight : Weights]
ParticipantSeqs == UNION {[1..k -> Participants] : k \in 0..MaxBatch}

\* the root of the tree an import of the participants builds, NilN if none
ImportRoot(participants) ==
    Root(ImportLoop(EmptyTree, EmptyCensus, participants, 1, 0, <<>>, <<>>).ns).v

\* the roots a dump of the participants declares: the right one and another
DeclaredRoots(participants) ==
    UNION {{r, H(r, r)} :
              r \in {ImportRoot(CHOOSE sorted \in SortFunc(participants) : TRUE)}}

CensusFailure(op, err) ==
    /\ last' = Failure(op, err)
    /\ census' = [census EXCEPT !.failed = TRUE]
    /\ UNCHANGED <<nodes, dirty, store>>

Add(address, weight) ==
    /\ db # "closed"
    /\ ~PackPanics(Big(address), weight)
    /\ LET hexAddr == Hex(address)
           ns == InsertOp(nodes, PackAddressWeight(Big(address), weight))
           newIndex == Size(ns) - 1
       IN IF hexAddr \in DOMAIN census.addressIndex
          THEN CensusFailure("Add", "ErrAddressAlreadyExists")
          ELSE /\ nodes' = ns
               /\ dirty' = TRUE
               /\ census' = [census EXCEPT
                                !.addressIndex = MapSet(@, hexAddr, newIndex),
                                !.indexToAddress = MapSet(@, newIndex, hexAddr),
                                !.weights = MapSet(@, hexAddr, weight)]
               /\ store' = IF db = "nil" THEN store
                           ELSE persistEntry(store, hexAddr, newIndex, weight,
                                             Size(ns))
               /\ last' = Result("Add", TRUE, 0, 0)
    /\ UNCHANGED <<db, seqNodes, reader>>

\* the loop of AddBulk that updates the in-memory maps
RECURSIVE AddBulkMaps(_, _, _, _, _)
AddBulkMaps(c, hexAddrs, weights, startingIndex, i) ==
    IF i >= Len(hexAddrs) THEN c
    ELSE AddBulkMaps(
             [c EXCEPT !.addressIndex = MapSet(@, hexAddrs[i + 1], startingIndex + i),
                       !.indexToAddress = MapSet(@, startingIndex + i, hexAddrs[i + 1]),
                       !.weights = MapSet(@, hexAddrs[i + 1], weights[i + 1])],
             hexAddrs, weights, startingIndex, i + 1)

\* only the first address of the batch is looked up
AddBulkExistsFirst(c, hexAddrs) == hexAddrs[1] \in DOMAIN c.addressIndex

\* the pre-validation loop of AddBulk finds an address of the batch
AddBulkExists(c, hexAddrs) ==
    \E i \in 1..Len(hexAddrs) : hexAddrs[i] \in DOMAIN c.addressIndex

AddBulk(addresses, weights) ==
    /\ db # "closed"
    /\ \A i \in 1..Len(addresses) :
          i <= Len(weights) => ~PackPanics(Big(addresses[i]), weights[i])
    /\ LET hexAddrs == [i \in 1..Len(addresses) |-> Hex(addresses[i])]
           packedValues == [i \in 1..Len(addresses) |->
                               PackAddressWeight(Big(addresses[i]), weights[i])]
           startingIndex == Size(nodes)
           ns == InsertEach(nodes, packedValues, 1)
           err == IF Len(addresses) # Len(weights) THEN "same length"
                  ELSE IF Len(addresses) = 0 THEN ""
                  ELSE IF AddBulkExists(census, hexAddrs) THEN "already exists"
                  ELSE ""
       IN /\ IF err # ""
             THEN /\ census' = [census EXCEPT !.failed = TRUE]
                  /\ UNCHANGED <<nodes, dirty, store>>
             ELSE IF Len(addresses) = 0
             THEN UNCHANGED <<nodes, dirty, store, census>>
             ELSE /\ nodes' = ns
                  /\ dirty' = TRUE
                  /\ census' = AddBulkMaps(census, hexAddrs, weights,
                                           startingIndex, 0)
                  /\ store' = IF db = "nil" THEN store
                              ELSE persistBulkEntries(store, hexAddrs, weights,
                                                      startingIndex, Size(ns))
          \* the call as it was made: the lengths of the two slices and whether
          \* an address of the batch was in the census
          /\ last' = [op |-> "AddBulk", ok |-> (err = ""), err |-> err,
                      n |-> Len(addresses), k |-> Len(weights),
                      present |-> \E i \in 1..Len(addresses) :
                                     Has(census, addresses[i])]
    /\ UNCHANGED <<db, seqNodes, reader>>

\* CensusIMT.Update
CensusUpdate(address, newWeight) ==
    /\ db # "closed"
    /\ ~PackPanics(Big(address), newWeight)
    /\ LET hexAddr == Hex(address)
       IN IF hexAddr \notin DOMAIN census.addressIndex
          THEN CensusFailure("Census.Update", "ErrAddressNotFound")
          ELSE LET index == census.addressIndex[hexAddr]
                   packed == PackAddressWeight(Big(address), newWeight)
               IN IF ~UpdateInRange(nodes, index)
                  THEN CensusFailure("Census.Update", "out of range")
                  ELSE /\ nodes' = UpdateOp(nodes, index, packed)
                       /\ dirty' = TRUE
                       /\ census' = [census EXCEPT
                                        !.weights = MapSet(@, hexAddr, newWeight)]
                       /\ store' = IF db = "nil" THEN store
                                   ELSE persistEntry(store, hexAddr, index,
                                                     newWeight, Size(nodes))
                       /\ last' = Result("Census.Update", TRUE, 0, 0)
    /\ UNCHANGED <<db, seqNodes, reader>>

\* ImportAll and Import from resetPersistentState on: the sorted participants
\* replace the content of the census, then the root is compared
ImportSorted(op, root, participants) ==
    \E store1 \in {IF db = "nil" THEN store
                    ELSE resetPersistentState(store, nodes, census)} :
    \E tree \in {IF db = "nil" THEN EmptyTree ELSE NewTree(store1).ns} :
    \E r \in {ImportLoop(tree, [EmptyCensus EXCEPT !.failed = census.failed],
                          participants, 1, 0, <<>>, <<>>)} :
    \E err \in {IF ~Root(r.ns).ok THEN "ErrEmptyCensus"
                 ELSE IF Root(r.ns).v # root THEN "ErrBadCensusDump"
                 ELSE ""} :
       /\ nodes' = r.ns
       /\ dirty' = (Size(r.ns) > Size(tree))
       /\ census' = IF err = "" THEN r.c ELSE [r.c EXCEPT !.failed = TRUE]
       /\ store' = IF err = "" /\ db # "nil"
                   THEN persistImportedData(store1, r.hexAddrs, r.weights,
                                            r.c.addressIndex, Size(r.ns))
                   ELSE store1
       /\ last' = IF err = "" THEN Result(op, TRUE, 0, Len(participants))
                  ELSE Failure(op, err)

ImportAll(dump) ==
    /\ db # "closed"
    /\ \E participants \in SortFunc(dump.Participants) :
          ImportSorted("ImportAll", dump.Root, participants)
    /\ UNCHANGED <<db, seqNodes, reader>>

\* Import(root, reader): participants are the decoded lines of the reader
Import(root, participants) ==
    /\ db # "closed"
    /\ IF Len(participants) = 0
       THEN LET store1 == IF db = "nil" THEN store
                          ELSE resetPersistentState(store, nodes, census)
            IN /\ nodes' = IF db = "nil" THEN EmptyTree ELSE NewTree(store1).ns
               /\ dirty' = FALSE
               /\ census' = [EmptyCensus EXCEPT !.failed = TRUE]
               /\ store' = store1
               /\ last' = Failure("Import", "ErrEmptyCensus")
       ELSE \E sorted \in SortFunc(participants) :
               ImportSorted("Import", root, sorted)
    /\ UNCHANGED <<db, seqNodes, reader>>

\* dump, _ := c.DumpAll(); c.ImportAll(dump) on a census with a root
ReimportDump ==
    /\ Size(nodes) > 0
    /\ ImportAll(DumpAll(nodes, census))

\* CensusIMT.Sync: c.tree.Sync() under the census lock
CensusSync ==
    /\ db # "closed"
    /\ SyncEffect
    /\ last' = Result("Census.Sync", TRUE, PreviousSize, 0)
    /\ UNCHANGED <<nodes, seqNodes, db, census, reader>>

\* NewCensusIMT(database, hasher): database is nil or an empty database
InitCensusWith(d) ==
    /\ nodes = EmptyTree
    /\ dirty = FALSE
    /\ db = d
    /\ store = EmptyStore
    /\ seqNodes = EmptyTree
    /\ last = Result("NewCensusIMT", TRUE, 0, 0)
    /\ census = EmptyCensus
    /\ reader = IdleReader

InitCensus == InitCensusWith("nil")

NextCensus ==
    \/ \E address \in Addresses, weight \in Weights :
          Size(nodes) < MaxCensus /\ Add(address, weight)
    \/ \E addresses \in AddressSeqs(MaxBatch), weights \in WeightSeqs(MaxBatch) :
          Size(nodes) + Len(addresses) <= MaxCensus /\ AddBulk(addresses, weights)
    \/ \E address \in Addresses, newWeight \in Weights :
          CensusUpdate(address, newWeight)
    \/ \E participants \in ParticipantSeqs :
          \E root \in DeclaredRoots(participants) :
             ImportAll([Root |-> root, Participants |-> participants])
    \/ \E participants \in ParticipantSeqs :
          \E root \in DeclaredRoots(participants) : Import(root, participants)
    \/ ReimportDump
    \/ CensusSync

\* the in-memory census
SpecCensus == InitCensus /\ [][NextCensus]_vars

\* the census on a database
InitCensusPersist == InitCensusWith("open")

SpecCensusPersist == InitCensusPersist /\ [][NextCensus]_vars

\* NewCensusIMT on the database of a closed census
CensusReopen ==
    /\ db = "closed"
    /\ \E r \in {NewCensusIMT(store, [EmptyCensus EXCEPT !.failed = census.failed])} :
          IF r.err = ""
          THEN /\ nodes' = r.ns
               /\ census' = r.c
               /\ dirty' = FALSE
               /\ db' = "open"
               /\ last' = Result("NewCensusIMT", TRUE, 0, 0)
          ELSE /\ last' = Failure("NewCensusIMT", r.err)
               /\ UNCHANGED <<nodes, census, dirty, db>>
    /\ UNCHANGED <<store, seqNodes, reader>>

\* Add, AddBulk and Update on a database, Close (c.Sync() and c.tree.Close()
\* do what Close of the tree does) and reopening
NextCensusReopen ==
    \/ \E address \in Addresses, weight \in Weights :
          Size(nodes) < MaxCensus /\ Add(address, weight)
    \/ \E addresses \in AddressSeqs(MaxCensus - Size(nodes)) :
          \E weights \in WeightSeqs(Len(addresses)) :
             Len(addresses) <= MaxBatch /\ AddBulk(addresses, weights)
    \/ \E address \in Addresses, newWeight \in Weights :
          CensusUpdate(address, newWeight)
    \/ Close
    \/ CensusReopen

SpecCensusReopen == InitCensusPersist /\ [][NextCensusReopen]_vars

\* Add and AddBulk on a database; the batches of AddBulk are those that fit
\* in the census, with one weight for all addresses, those with one weight
\* too few or too many and those with an address that is in the census
NextAddBulk ==
    \/ \E address \in Addresses, weight \in Weights :
          Size(nodes) < MaxCensus /\ Add(address, weight)
    \/ \E addresses \in AddressSeqs(MaxCensus - Size(nodes)), weight \in Weights :
          /\ Len(addresses) <= MaxBatch
          /\ AddBulk(addresses, [i \in 1..Len(addresses) |-> weight])
    \/ \E addresses \in AddressSeqs(MaxBatch) :
          \E k \in {Len(addresses) - 1, Len(addresses) + 1} :
             k >= 0 /\ AddBulk(addresses, [i \in 1..k |-> 0])
    \/ \E addresses \in AddressSeqs(MaxBatch) :
          /\ \E i \in 1..Len(addresses) : Has(census, addresses[i])
          /\ AddBulk(addresses, [i \in 1..Len(addresses) |-> 0])

SpecAddBulk == InitCensusPersist /\ [][NextAddBulk]_vars

\* ------------------------------------------------- packing, on its own
\* the arguments of one call: big.Ints of up to one bit more than the field
\* of the layout holds
InitPack ==
    /\ nodes = EmptyTree
    /\ dirty = FALSE
    /\ db = "nil"
    /\ store = EmptyStore
    /\ seqNodes = EmptyTree
    /\ census = EmptyCensus
    /\ reader = IdleReader
    /\ \E address \in 0..(Pow2(AddressBits + 1) - 1),
          weight \in 0..(Pow2(WeightBits + 1) - 1) :
          last = [op |-> "args", ok |-> TRUE, address |-> address,
                  weight |-> weight, packed |-> NilN, unpacked |-> <<>>]

\* packed := PackAddressWeight(address, weight); ok is false when it panics
PackCall ==
    /\ last.op = "args"
    /\ last' = IF PackPanics(last.address, last.weight)
               THEN [last EXCEPT !.op = "PackAddressWeight", !.ok = FALSE]
               ELSE [last EXCEPT !.op = "PackAddressWeight",
                                 !.packed = PackAddressWeight(last.address, last.weight)]
    /\ UNCHANGED <<nodes, dirty, db, store, seqNodes, census, reader>>

\* UnpackAddressWeight(packed)
UnpackCall ==
    /\ last.op = "PackAddressWeight"
    /\ last.ok
    /\ last' = [last EXCEPT !.op = "UnpackAddressWeight",
                            !.unpacked = UnpackAddressWeight(last.packed)]
    /\ UNCHANGED <<nodes, dirty, db, store, seqNodes, census, reader>>

NextPack ==
    \/ PackCall
    \/ UnpackCall

SpecPack == InitPack /\ [][NextPack]_vars

\* ------------------------------------- census readers beside AddBulk
\* AddBulk holds c.mu for the whole call; each c.tree.Insert of its loop takes
\* and releases t.mu on its own.  Has and GetWeight take c.mu; Root() and
\* Size() of the census call c.tree.Root() and c.tree.Size() without it.
\* While a batch is being written last is the writer: n inserts of k done,
\* before the tree when the call began.
AddBulkLock(addresses, weights) ==
    /\ last.op # "AddBulk.running"
    /\ Len(addresses) = Len(weights) /\ Len(addresses) > 0
    /\ \A i \in 1..Len(addresses) : ~PackPanics(Big(addresses[i]), weights[i])
    /\ ~AddBulkExists(census, [i \in 1..Len(addresses) |-> Hex(addresses[i])])
    /\ last' = [op |-> "AddBulk.running", ok |-> TRUE, err |-> "",
                n |-> 0, k |-> Len(addresses), before |-> nodes,
                hexAddrs |-> [i \in 1..Len(addresses) |-> Hex(addresses[i])],
                weights |-> weights,
                packedValues |-> [i \in 1..Len(addresses) |->
                                    PackAddressWeight(Big(addresses[i]), weights[i])]]
    /\ UNCHANGED <<nodes, dirty, db, store, seqNodes, census, reader>>

\* c.tree.Insert(packed), one turn of the loop
AddBulkInsert ==
    /\ last.op = "AddBulk.running"
    /\ last.n < last.k
    /\ nodes' = InsertOp(nodes, last.packedValues[last.n + 1])
    /\ dirty' = TRUE
    /\ last' = [last EXCEPT !.n = @ + 1]
    /\ UNCHANGED <<db, store, seqNodes, census, reader>>

\* the maps are updated and c.mu is released
AddBulkUnlock ==
    /\ last.op = "AddBulk.running"
    /\ last.n = last.k
    /\ census' = AddBulkMaps(census, last.hexAddrs, last.weights,
                             Size(last.before), 0)
    /\ last' = Result("AddBulk", TRUE, 0, last.k)
    /\ UNCHANGED <<nodes, dirty, db, store, seqNodes, reader>>

\* a reader thread calls c.Size(), c.Root(), or c.Has(address), which waits
\* for c.mu
CensusRead ==
    /\ \/ reader' = [IdleReader EXCEPT !.pc = "Size", !.arg = Size(nodes)]
       \/ reader' = [IdleReader EXCEPT !.pc = "Root", !.leaf = Root(nodes).v,
                                       !.ok = Root(nodes).ok]
       \/ /\ last.op # "AddBulk.running"
          /\ \E address \in Addresses :
                reader' = [IdleReader EXCEPT !.pc = "Has", !.leaf = address,
                                            !.ok = Has(census, address)]
    /\ UNCHANGED <<nodes, dirty, db, store, seqNodes, census, last>>

NextCensusConc ==
    \/ \E addresses \in AddressSeqs(MaxBatch) :
          \E weights \in WeightSeqs(Len(addresses)) :
             /\ Size(nodes) + Len(addresses) <= MaxCensus
             /\ AddBulkLock(addresses, weights)
    \/ AddBulkInsert
    \/ AddBulkUnlock
    \/ CensusRead

SpecCensusConc == InitCensus /\ [][NextCensusConc]_vars

\* ------------------------------------------------- a hash that panics
\* t.Insert(leaf) with a hash function that panics when called: the panic
\* leaves Insert at its first t.hash call, the deferred Unlock runs, and the
\* matrix keeps what Insert had written by then; markDirty is not reached.
\* An Insert whose path has no right child calls no hash and completes.
InsertHashPanics(leaf) ==
    /\ last.err # "panic"
    /\ \E r \in {InsertPanicOp(nodes, leaf)} :
          IF r.called
          THEN /\ nodes' = r.ns
               /\ last' = Failure("Insert", "panic")
               /\ UNCHANGED <<dirty, seqNodes>>
          ELSE /\ nodes' = InsertOp(nodes, leaf)
               /\ seqNodes' = InsertOp(seqNodes, leaf)
               /\ dirty' = TRUE
               /\ last' = Result("Insert", TRUE, 0, 0)
    /\ UNCHANGED <<db, store, census, reader>>

\* a tree handle used until a hash call panics
NextPanic ==
    \/ \E leaf \in LeafNodes :
          Size(nodes) < MaxSize /\ last.err # "panic" /\ Insert(leaf)
    \/ \E index \in IndexVals, newLeaf \in LeafNodes :
          last.err # "panic" /\ Update(index, newLeaf)
    \/ \E leaf \in LeafNodes : Size(nodes) < MaxSize /\ InsertHashPanics(leaf)

SpecPanic == Init /\ [][NextPanic]_vars

\* ------------------------------------------- a proof kept by its caller
\* proof, _ := t.GenerateProof(index), kept by the caller; root is what
\* t.Root() returned when the proof was generated
GenerateProofKeep(index) ==
    /\ db = "open"
    /\ GenerateProofInRange(nodes, index)
    /\ reader' = [pc |-> "kept", arg |-> index,
                  proof |-> GenerateProof(nodes, index), root |-> Root(nodes).v]
    /\ last' = Result("GenerateProof", TRUE, 0, 0)
    /\ UNCHANGED <<nodes, dirty, db, store, seqNodes, census>>

\* mutant: the recomputed node is compared with the root of the tree
VerifyProofCallCurrentRoot ==
    /\ reader.pc = "kept"
    /\ last' = Result("VerifyProof",
                      Eq(VerifyLoop(reader.proof, 0, reader.proof.Leaf),
                         Root(nodes).v), 0, 0)
    /\ UNCHANGED <<nodes, dirty, db, store, seqNodes, census, reader>>

\* t.VerifyProof(proof) with the kept proof, on the handle as it is now
VerifyProofCall ==
    /\ reader.pc = "kept"
    /\ last' = Result("VerifyProof", VerifyProof(reader.proof), 0, 0)
    /\ UNCHANGED <<nodes, dirty, db, store, seqNodes, census, reader>>

\* a persistent tree of leaves 0 and MaxLeaf, written, closed and reopened
\* while a caller keeps a proof
NextProofs ==
    \/ \E leaf \in {Leaf(0), Leaf(MaxLeaf)} : Size(nodes) < MaxPersist /\ Insert(leaf)
    \/ \E index \in 0..(Size(nodes) - 1), newLeaf \in {Leaf(0), Leaf(MaxLeaf)} :
          Update(index, newLeaf)
    \/ \E index \in 0..(Size(nodes) - 1) : GenerateProofKeep(index)
    \/ VerifyProofCall
    \/ Close
    \/ New

SpecProofs == InitPersist /\ [][NextProofs]_vars

\* ------------------------------------------- every writer and Load
\* a persistent handle of leaves 0 and MaxLeaf under the four writers and
\* Load, never synced; UpdateMany takes up to two indices and writes MaxLeaf at each
FrameLeaves == {Leaf(0), Leaf(MaxLeaf)}
FrameArgs(n) ==
    {<<indices, [i \in 1..Len(indices) |-> Leaf(MaxLeaf)]>> :
        indices \in UNION {[1..k -> 0..n] : k \in 0..2}}

NextFrame ==
    \/ \E leaf \in FrameLeaves : Size(nodes) < MaxPersist /\ Insert(leaf)
    \/ \E leaves \in UNION {[1..k -> FrameLeaves] : k \in 0..2} :
          Size(nodes) + Len(leaves) <= MaxPersist /\ InsertMany(leaves)
    \/ \E index \in (-1)..Size(nodes), newLeaf \in FrameLeaves :
          Update(index, newLeaf)
    \/ \E args \in FrameArgs(Size(nodes)) : UpdateMany(args[1], args[2])
    \/ LoadCall

SpecFrame == InitPersist /\ [][NextFrame]_vars

\* ------------------------------------------------- Dump beside Add calls
\* const batchSize of dumpRangeBatched (1000 in the source)
batchSize == 2

\* the batch reads one entry too few
dumpBatchDropsLast(c, i, end) ==
    LET batchEnd == IF i + batchSize < end THEN i + batchSize ELSE end
    IN [err |-> \E j \in i..(batchEnd - 1) :
                   j \in DOMAIN c.indexToAddress
                   /\ c.indexToAddress[j] \notin DOMAIN c.weights,
        batch |-> dumpRangeEntries(c, i, batchEnd - 1)]

\* one turn of the loop of dumpRangeBatched, under c.mu.RLock(): the batch
\* [i, min(i + batchSize, end)), or the error of a missing weight
dumpBatch(c, i, end) ==
    LET batchEnd == IF i + batchSize < end THEN i + batchSize ELSE end
    IN [err |-> \E j \in i..(batchEnd - 1) :
                   j \in DOMAIN c.indexToAddress
                   /\ c.indexToAddress[j] \notin DOMAIN c.weights,
        batch |-> dumpRangeEntries(c, i, batchEnd)]

\* Dump() = DumpRange(0, -1): the goroutine reads c.tree.Size() under
\* c.mu.RLock(); offset >= size returns at once, limit < 0 takes the batched
\* path.  arg is the size read, index the next i, entries what was written
\* to the pipe, sizes the size of the census at each batch.
DumpCall ==
    /\ reader.pc = "idle"
    /\ reader' = [pc |-> IF 0 >= Size(nodes) THEN "Dump.done" ELSE "Dump.batch",
                  arg |-> Size(nodes), index |-> 0, entries |-> <<>>,
                  sizes |-> <<>>, ok |-> TRUE]
    /\ UNCHANGED <<nodes, dirty, db, store, seqNodes, census, last>>

DumpBatch ==
    /\ reader.pc = "Dump.batch"
    /\ \E r \in {dumpBatch(census, reader.index, reader.arg)} :
          reader' = IF r.err
                    THEN [reader EXCEPT !.pc = "Dump.done", !.ok = FALSE]
                    ELSE [reader EXCEPT
                             !.pc = IF reader.index + batchSize < reader.arg
                                    THEN "Dump.batch" ELSE "Dump.done",
                             !.index = @ + batchSize,
                             !.entries = @ \o r.batch,
                             !.sizes = Append(@, Size(nodes))]
    /\ UNCHANGED <<nodes, dirty, db, store, seqNodes, census, last>>

\* the caller has read the pipe to its end and drops the reader
DumpRead ==
    /\ reader.pc = "Dump.done"
    /\ reader' = IdleReader
    /\ UNCHANGED <<nodes, dirty, db, store, seqNodes, census, last>>

\* an in-memory census of the addresses 0..MaxConc: Add calls beside one Dump
NextDump ==
    \/ \E b \in 0..MaxConc, weight \in {0, MaxWeight} :
          Size(nodes) <= MaxConc /\ Add(<<b>>, weight)
    \/ DumpCall
    \/ DumpBatch
    \/ DumpRead

SpecDump == InitCensus /\ [][NextDump]_vars

\* --------------------------------------------------------- imports only
\* an in-memory census that is only ever filled by ImportAll and Import
NextImport ==
    \/ \E participants \in ParticipantSeqs :
          \E root \in DeclaredRoots(participants) :
             ImportAll([Root |-> root, Participants |-> participants])
    \/ \E participants \in ParticipantSeqs :
          \E root \in DeclaredRoots(participants) : Import(root, participants)

SpecImport == InitCensus /\ [][NextImport]_vars

\* ------------------------------------------- weights over the field width
\* weights of one bit more than the weight field holds
OverWeights == {Pow2(WeightBits), Pow2(WeightBits + 1) - 1}

\* the result of a call that was made with a weight of OverWeights
WideResult(op, err) ==
    [op |-> op, ok |-> err = "", err |-> err, n |-> 0, k |-> 0, wide |-> TRUE]

\* PackAddressWeight panics inside a census call: nothing was written yet
\* and the deferred c.mu.Unlock() runs while the panic unwinds
CallPanics(op) ==
    /\ last' = WideResult(op, "panic")
    /\ UNCHANGED <<nodes, dirty, db, store, seqNodes, census, reader>>

\* the call returns the error before it packs
WideFailure(op, err) ==
    /\ last' = WideResult(op, err)
    /\ census' = [census EXCEPT !.failed = TRUE]
    /\ UNCHANGED <<nodes, dirty, db, store, seqNodes, reader>>

\* Add with a weight of OverWeights: the address is looked up, then packed
AddWide(address, weight) ==
    /\ db # "closed"
    /\ IF Has(census, address) THEN WideFailure("Add", "ErrAddressAlreadyExists")
       ELSE IF PackPanics(Big(address), weight) THEN CallPanics("Add")
       ELSE \E ns \in {InsertOp(nodes, PackAddressWeight(Big(address), weight))} :
               /\ nodes' = ns
               /\ dirty' = TRUE
               /\ census' = [census EXCEPT
                                !.addressIndex = MapSet(@, Hex(address), Size(ns) - 1),
                                !.indexToAddress = MapSet(@, Size(ns) - 1, Hex(address)),
                                !.weights = MapSet(@, Hex(address), weight)]
               /\ store' = persistEntry(store, Hex(address), Size(ns) - 1, weight,
                                        Size(ns))
               /\ last' = WideResult("Add", "")
               /\ UNCHANGED <<db, seqNodes, reader>>

\* AddBulk with a weight of OverWeights in the batch: lengths, c.mu.Lock(),
\* the addresses, then the packing loop
AddBulkWide(addresses, weights) ==
    /\ db # "closed"
    /\ Len(addresses) = Len(weights) /\ Len(addresses) > 0
    /\ \E hexAddrs \in {[i \in 1..Len(addresses) |-> Hex(addresses[i])]} :
          IF AddBulkExists(census, hexAddrs) THEN WideFailure("AddBulk", "already exists")
          ELSE IF \E i \in 1..Len(addresses) : PackPanics(Big(addresses[i]), weights[i])
          THEN CallPanics("AddBulk")
          ELSE \E ns \in {InsertEach(nodes,
                                     [i \in 1..Len(addresses) |->
                                         PackAddressWeight(Big(addresses[i]), weights[i])],
                                     1)} :
                  /\ nodes' = ns
                  /\ dirty' = TRUE
                  /\ census' = AddBulkMaps(census, hexAddrs, weights, Size(nodes), 0)
                  /\ store' = persistBulkEntries(store, hexAddrs, weights,
                                                 Size(nodes), Size(ns))
                  /\ last' = WideResult("AddBulk", "")
                  /\ UNCHANGED <<db, seqNodes, reader>>

\* Update with a weight of OverWeights: the address is looked up, then packed
CensusUpdateWide(address, newWeight) ==
    /\ db # "closed"
    /\ IF ~Has(census, address) THEN WideFailure("Census.Update", "ErrAddressNotFound")
       ELSE IF PackPanics(Big(address), newWeight) THEN CallPanics("Census.Update")
       ELSE /\ nodes' = UpdateOp(nodes, census.addressIndex[Hex(address)],
                                 PackAddressWeight(Big(address), newWeight))
            /\ dirty' = TRUE
            /\ census' = [census EXCEPT
                             !.weights = MapSet(@, Hex(address), newWeight)]
            /\ store' = persistEntry(store, Hex(address),
                                     census.addressIndex[Hex(address)], newWeight,
                                     Size(nodes))
            /\ last' = WideResult("Census.Update", "")
            /\ UNCHANGED <<db, seqNodes, reader>>

\* batches with a weight of OverWeights at one place
WideBatches ==
    UNION {{<<addresses, [i \in 1..Len(addresses) |-> IF i = at THEN w ELSE 0]>> :
               at \in 1..Len(addresses), w \in {Pow2(WeightBits)}} :
              addresses \in AddressSeqs(MaxBatch)}

\* a persistent census: calls with weights that fit, and calls with a
\* weight of one bit too many
NextWide ==
    \/ \E address \in Addresses, weight \in Weights :
          Size(nodes) < MaxCensus /\ Add(address, weight)
    \/ \E address \in Addresses, newWeight \in Weights :
          CensusUpdate(address, newWeight)
    \/ \E address \in Addresses, weight \in OverWeights : AddWide(address, weight)
    \/ \E batch \in WideBatches : AddBulkWide(batch[1], batch[2])
    \/ \E address \in Addresses, newWeight \in OverWeights :
          CensusUpdateWide(address, newWeight)

SpecWide == InitCensusPersist /\ [][NextWide]_vars

\* ------------------------------------------------------ crash and reopen
\* the process ends without Close: the handle and what it held in memory are
\* gone, the database keeps what was committed
Crash ==
    /\ db = "open"
    /\ db' = "closed"
    /\ nodes' = EmptyTree
    /\ census' = [EmptyCensus EXCEPT !.failed = census.failed]
    /\ dirty' = FALSE
    /\ last' = Result("crash", TRUE, 0, 0)
    /\ UNCHANGED <<store, seqNodes, reader>>

\* a persistent census that is written, synced, closed or ended by a crash,
\* and opened again
NextCrash ==
    \/ \E address \in Addresses, weight \in Weights :
          Size(nodes) < MaxCensus /\ Add(address, weight)
    \/ \E addresses \in AddressSeqs(MaxCensus - Size(nodes)) :
          \E weights \in WeightSeqs(Len(addresses)) :
             Len(addresses) <= MaxBatch /\ AddBulk(addresses, weights)
    \/ CensusSync
    \/ Close
    \/ Crash
    \/ CensusReopen

SpecCrash == InitCensusPersist /\ [][NextCrash]_vars

\* ------------------------------------------------- import, close, reopen
\* a persistent census that is filled by imports, synced, closed and opened
\* again
NextImportReopen ==
    \/ \E participants \in ParticipantSeqs :
          \E root \in DeclaredRoots(participants) :
             ImportAll([Root |-> root, Participants |-> participants])
    \/ \E participants \in ParticipantSeqs :
          \E root \in DeclaredRoots(participants) : Import(root, participants)
    \/ CensusSync
    \/ Close
    \/ CensusReopen

SpecImportReopen == InitCensusPersist /\ [][NextImportReopen]_vars

\* -------------------------------------------- New on a store as found
\* the stores a database may hold before New: meta:size absent or 0..MaxPersist
\* and each of leaf:0 .. leaf:<MaxPersist-1> absent or an encoded leaf
FoundStores ==
    {[k \in {LeafKey(i) : i \in present} \cup (IF size < 0 THEN {} ELSE {MetaSizeKey}) |->
         IF k = MetaSizeKey THEN encodeInt(size) ELSE value] :
        present \in SUBSET (0..(MaxPersist - 1)), size \in (-1)..MaxPersist,
        value \in {<<0>>, <<MaxLeaf>>}}

\* no handle yet, and a database with any of these stores
InitFound ==
    /\ nodes = EmptyTree
    /\ dirty = FALSE
    /\ db = "closed"
    /\ store \in FoundStores
    /\ seqNodes = EmptyTree
    /\ last = Result("none", TRUE, 0, 0)
    /\ census = EmptyCensus
    /\ reader = IdleReader

NextFound ==
    \/ New
    \/ \E leaf \in FrameLeaves : Size(nodes) < MaxPersist /\ Insert(leaf)
    \/ Sync
    \/ Close

SpecFound == InitFound /\ [][NextFound]_vars

\* ------------------------------------------- Update, close and reopen
\* a persistent census under Add and Update, closed and opened again
NextUpdate ==
    \/ \E address \in Addresses, weight \in Weights :
          Size(nodes) < MaxCensus /\ Add(address, weight)
    \/ \E address \in Addresses, newWeight \in Weights :
          CensusUpdate(address, newWeight)
    \/ Close
    \/ CensusReopen

SpecUpdate == InitCensusPersist /\ [][NextUpdate]_vars

\* ------------------------------------------- batches on any tree
\* an in-memory handle under Insert, InsertMany and Update; the second tree
\* gets one Insert per leaf of a batch
NextBatch ==
    \/ \E leaf \in LeafNodes : Size(nodes) < MaxSize /\ Insert(leaf)
    \/ \E leaves \in UNION {[1..k -> LeafNodes] : k \in 0..(MaxSize - Size(nodes))} :
          InsertMany(leaves)
    \/ \E index \in 0..(Size(nodes) - 1), newLeaf \in LeafNodes :
          Update(index, newLeaf)

SpecBatch == Init /\ [][NextBatch]_vars

\* ============================================================== claims

\* C1: after any sequence of successful or failed Insert, InsertMany, Update
\* and UpdateMany calls, Depth() is the least d with 2^d >= max(Size(), 1),
\* the top level holds one element when Size() > 0 and none when Size() = 0,
\* and Root() is present iff Size() > 0.
C1_DepthAndTop ==
    LET n == IF Size(nodes) > 1 THEN Size(nodes) ELSE 1
        d == Depth(nodes)
    IN /\ d >= 0
       /\ Pow2(d) >= n
       /\ (d > 0 => Pow2(d - 1) < n)
       /\ Len(nodes[d + 1]) = (IF Size(nodes) > 0 THEN 1 ELSE 0)
       /\ (Root(nodes).ok <=> Size(nodes) > 0)

C1_Witness ==
    /\ last.op = "InsertMany" /\ last.ok /\ last.n = 2
    /\ Size(nodes) = 5 /\ Depth(nodes) = 3 /\ Root(nodes).ok

\* C2: at every level l < Depth() the next level has ceil(len/2) nodes, and
\* parent i is H(left, right) when the right child exists and the left child
\* itself (lean rule) when it does not.
C2_LevelsConsistent ==
    \A l \in 0..(Depth(nodes) - 1) :
        /\ Len(nodes[l + 2]) = (Len(nodes[l + 1]) + 1) \div 2
        /\ \A i \in 0..(Len(nodes[l + 2]) - 1) :
              At(nodes, l + 1, i) =
                 IF 2 * i + 1 < Len(nodes[l + 1])
                 THEN H(At(nodes, l, 2 * i), At(nodes, l, 2 * i + 1))
                 ELSE At(nodes, l, 2 * i)

\* an Update of a left leaf that has a right sibling, in a tree with a lean node
C2_Witness ==
    /\ last.op = "Update" /\ last.ok
    /\ Size(nodes) = 5 /\ Depth(nodes) = 3
    /\ At(nodes, 0, 0) # At(nodes, 0, 1)
    /\ At(nodes, 2, 1) = At(nodes, 0, 4)

\* C3: for every index i in [0, Size()), GenerateProof(i) succeeds, its Leaf is
\* nodes[0][i], its Root is Root(), and VerifyProof accepts it.
C3_ProofsVerify ==
    \A i \in 0..(Size(nodes) - 1) :
        /\ GenerateProofInRange(nodes, i)
        /\ GenerateProof(nodes, i).Leaf = At(nodes, 0, i)
        /\ GenerateProof(nodes, i).Root = Root(nodes).v
        /\ VerifyProof(GenerateProof(nodes, i))

\* a tree of five leaves: the proof of leaf 4 skips two levels (one sibling),
\* the proof of leaf 2 has three siblings
C3_Witness ==
    /\ Size(nodes) = 5 /\ last.ok
    /\ Len(GenerateProof(nodes, 4).Siblings) = 1
    /\ Len(GenerateProof(nodes, 2).Siblings) = 3
    /\ VerifyProof(GenerateProof(nodes, 4))

\* C4: InsertMany(L) on an empty tree and Insert(L[0]), ..., Insert(L[n-1]) on
\* an empty tree give equal Root(), Size() and Depth().
C4_InsertManyFromEmpty ==
    (last.op = "InsertMany" /\ last.ok /\ last.n = 0)
        => /\ Root(nodes) = Root(seqNodes)
           /\ Size(nodes) = Size(seqNodes)
           /\ Depth(nodes) = Depth(seqNodes)

C4_Witness ==
    /\ last.op = "InsertMany" /\ last.ok /\ last.n = 0
    /\ Size(seqNodes) = 5 /\ Size(nodes) = 5
    /\ Root(nodes).ok /\ Root(nodes) = Root(seqNodes)

\* C5: from two equal trees, a successful UpdateMany(indices, values) gives
\* the same Root() as Update(indices[k], values[k]) for every k in order.
C5_UpdateManyAsUpdates ==
    [][(nodes = seqNodes /\ last'.op = "UpdateMany" /\ last'.ok)
          => Root(nodes') = Root(seqNodes')]_vars

\* two leaves of a three-leaf tree were replaced by one UpdateMany
C5_Witness ==
    /\ last.op = "UpdateMany" /\ last.ok /\ last.k = 2
    /\ Size(nodes) = 3 /\ Depth(nodes) = 2
    /\ Root(nodes) = Root(seqNodes)
    /\ At(nodes, 0, 0) # At(nodes, 0, 2)

\* C6: a tree opened by New on the store of a handle that was synced and
\* closed has the Size(), Depth(), Root() and Leaves() of that handle.
C6_ReopenSameTree ==
    [][(last'.op = "New" /\ last'.ok)
          => /\ Size(nodes') = Size(nodes)
             /\ Depth(nodes') = Depth(nodes)
             /\ Root(nodes') = Root(nodes)
             /\ Leaves(nodes') = Leaves(nodes)]_vars

\* reopened with three leaves, after an earlier reopen and further writes
C6_Witness ==
    /\ last.op = "New" /\ last.ok /\ db = "open"
    /\ Size(nodes) = 3 /\ Depth(nodes) = 2
    /\ At(nodes, 0, 0) # At(nodes, 0, 2)
    /\ Get(store, MetaSizeKey).v = <<3>>

\* C10: after a Sync that commits a tree of n leaves while the store holds a
\* meta:size greater than n, the store holds meta:size = n and no key leaf:<i>
\* with i >= n.
C10_NoStaleLeaves ==
    (last.op = "Sync" /\ last.ok /\ last.n > Size(nodes))
        => /\ Get(store, MetaSizeKey).ok
           /\ Get(store, MetaSizeKey).v = encodeInt(Size(nodes))
           /\ \A key \in DOMAIN store :
                 key[1] = "leaf:" => decodeInt(key[2]) < Size(nodes)

\* three leaves were persisted, then one leaf was synced over them
C10_Witness ==
    /\ last.op = "Sync" /\ last.ok /\ last.n = 3
    /\ Size(nodes) = 1 /\ ~dirty
    /\ LeafKey(0) \in DOMAIN store
    /\ LeafKey(1) \notin DOMAIN store

\* C7: an ImportAll or Import that fails because the computed root differs
\* from the declared root leaves the tree leaves, Root(), Size(), addressIndex,
\* indexToAddress and weights of the census as they were before the call.
C7_FailedImportKeepsState ==
    [][(last'.op \in {"ImportAll", "Import"} /\ last'.err = "ErrBadCensusDump")
          => /\ Leaves(nodes') = Leaves(nodes)
             /\ Root(nodes') = Root(nodes)
             /\ Size(nodes') = Size(nodes)
             /\ census'.addressIndex = census.addressIndex
             /\ census'.indexToAddress = census.indexToAddress
             /\ census'.weights = census.weights]_vars

\* C8: after successful Add, AddBulk, Update, ImportAll and Import calls only,
\* every address A of the maps with index i and weight w has i < Size() and
\* leaf i = pack(A, w), no two addresses share an index, and indexToAddress is
\* the inverse of addressIndex.
C8_CensusMaps ==
    ~census.failed =>
        /\ DOMAIN census.weights = DOMAIN census.addressIndex
        /\ \A A \in DOMAIN census.addressIndex :
              LET i == census.addressIndex[A]
              IN /\ i >= 0 /\ i < Size(nodes)
                 /\ \E address \in Addresses :
                       /\ Hex(address) = A
                       /\ At(nodes, 0, i) =
                             PackAddressWeight(Big(address), census.weights[A])
        /\ \A A, B \in DOMAIN census.addressIndex :
              A # B => census.addressIndex[A] # census.addressIndex[B]
        /\ DOMAIN census.indexToAddress =
              {census.addressIndex[A] : A \in DOMAIN census.addressIndex}
        /\ \A A \in DOMAIN census.addressIndex :
              census.indexToAddress[census.addressIndex[A]] = A

\* C9: a proof returned by GenerateProof(i) while Insert, InsertMany, Update
\* and UpdateMany run on the same tree is accepted by VerifyProof, its Root,
\* Leaf, Index and Siblings coming from one tree state.
C9_ConcurrentProofVerifies ==
    (reader.pc = "done" /\ reader.ok) => VerifyProof(reader.proof)


\* C11: for every address within the address width and every weight within
\* the weight width, PackAddressWeight returns address * 2^WeightBits + weight
\* and UnpackAddressWeight of that value returns the address and the weight
C11_PackUnpack ==
    (/\ last.op \in {"PackAddressWeight", "UnpackAddressWeight"}
     /\ last.address < Pow2(AddressBits)
     /\ last.weight < Pow2(WeightBits))
        => /\ last.ok
           /\ last.packed = Leaf(last.address * Pow2(WeightBits) + last.weight)
           /\ last.op = "UnpackAddressWeight"
                 => last.unpacked = <<last.address, last.weight>>

\* the largest address and the largest weight, packed and unpacked
C11_Witness ==
    /\ last.op = "UnpackAddressWeight"
    /\ last.address = Pow2(AddressBits) - 1
    /\ last.weight = Pow2(WeightBits) - 1

\* C12: when ImportAll succeeds on a persistent census that held another
\* census in memory and on disk, the store after Sync has no leaf, idx:addr,
\* idx:rev or weight key outside the imported census, and a census reopened
\* on it has the root of the dump and as many leaves as the dump has
\* participants
C12_ImportAllReplacesStore ==
    [][(/\ db = "open"
        /\ ~dirty
        /\ Size(nodes) > 0
        /\ last'.op = "ImportAll"
        /\ last'.ok)
          => \E st \in {SyncTx(store', nodes')} :
             \E reopened \in {NewCensusIMT(st, EmptyCensus)} :
                /\ \A key \in DOMAIN st :
                      /\ key[1] = "leaf:" => decodeInt(key[2]) < Size(nodes')
                      /\ key[1] = "idx:addr:"
                            => key[2] \in DOMAIN census'.addressIndex
                      /\ key[1] = "idx:rev:"
                            => decodeInt(key[2]) \in DOMAIN census'.indexToAddress
                      /\ key[1] = "weight:" => key[2] \in DOMAIN census'.weights
                /\ reopened.err = ""
                /\ Root(reopened.ns) = Root(nodes')
                /\ Size(reopened.ns) = last'.k]_vars

\* C13: ImportAll of the DumpAll of a census with a root succeeds and gives a
\* census with the same Root(), the same Size() and, for every address, the
\* same Has and GetWeight
C13_ImportOfDumpAll ==
    [][ReimportDump
          => /\ last'.ok
             /\ Root(nodes') = Root(nodes)
             /\ Size(nodes') = Size(nodes)
             /\ \A address \in Addresses :
                   /\ Has(census', address) = Has(census, address)
                   /\ GetWeight(census', address) = GetWeight(census, address)]_vars

\* C14: a census reopened on the store of a closed census has the Size(),
\* the Root() and, for every address, the Has and GetWeight of the closed
\* one, and GenerateProof succeeds for each of its members
C14_ReopenSameCensus ==
    [][(db = "closed" /\ last'.op = "NewCensusIMT")
          => /\ last'.ok
             /\ Size(nodes') = Size(nodes)
             /\ Root(nodes') = Root(nodes)
             /\ \A address \in Addresses :
                   /\ Has(census', address) = Has(census, address)
                   /\ GetWeight(census', address) = GetWeight(census, address)
                   /\ Has(census', address)
                         => CensusGenerateProof(nodes', census', address).err = ""]_vars

\* a reopened census of MaxCensus members, one of them updated to MaxWeight
\* at index 0
C14_Witness ==
    /\ last.op = "NewCensusIMT"
    /\ last.ok
    /\ db = "open"
    /\ Size(nodes) = MaxCensus
    /\ \E address \in Addresses :
          /\ Has(census, address)
          /\ census.addressIndex[Hex(address)] = 0
          /\ GetWeight(census, address).v = MaxWeight

\* C15: a Sync that fails leaves the store, the node matrix and dirty = true
\* as they were, and a Sync that succeeds after it persists the current
\* leaves
C15_FailedSync ==
    [][/\ (last'.op = "Sync" /\ ~last'.ok)
            => /\ store' = store
               /\ nodes' = nodes
               /\ dirty /\ dirty'
       /\ (last.op = "Sync" /\ ~last.ok /\ last'.op = "Sync" /\ last'.ok)
            => /\ Load(store').err = ""
               /\ Leaves(Load(store').ns) = Leaves(nodes')
               /\ ~dirty']_vars

\* a failed Sync of a tree that has grown since the Sync before it
C15_Witness ==
    /\ last.op = "Sync"
    /\ ~last.ok
    /\ dirty
    /\ Get(store, MetaSizeKey).ok
    /\ decodeInt(Get(store, MetaSizeKey).v) = 1
    /\ Size(nodes) = MaxPersist

\* C16: on a persistent tree dirty is false right after New, after Load and
\* after every successful Sync, and true after every successful Insert,
\* InsertMany, Update and non-empty UpdateMany; whenever dirty is false
\* meta:size and the leaf:<i> keys hold nodes[0]; Sync with dirty = false
\* leaves the store as it is
C16_DirtyFlag ==
    [][/\ (last'.op \in {"New", "Load", "Sync"} /\ last'.ok) => ~dirty'
       /\ (last'.op \in {"Insert", "InsertMany", "Update"} /\ last'.ok)
             => dirty'
       /\ (last'.op = "UpdateMany" /\ last'.ok /\ last'.k > 0) => dirty'
       /\ (~dirty' /\ db' = "open")
             => /\ Load(store').err = ""
                /\ Leaves(Load(store').ns) = Leaves(nodes')
                /\ Size(nodes') > 0
                      => Get(store', MetaSizeKey).v = encodeInt(Size(nodes'))
       /\ (~dirty /\ last'.op = "Sync") => store' = store]_vars

\* C17: AddBulk with the same address at two positions of the batch returns
\* an error and leaves the tree, the three maps and the store unchanged
C17_AddBulkDuplicateInBatch ==
    [][\A addresses \in AddressSeqs(MaxBatch), weights \in WeightSeqs(MaxBatch) :
          (/\ \E i, j \in 1..Len(addresses) : i # j /\ addresses[i] = addresses[j]
           /\ AddBulk(addresses, weights))
             => /\ ~last'.ok
                /\ nodes' = nodes
                /\ census'.addressIndex = census.addressIndex
                /\ census'.indexToAddress = census.indexToAddress
                /\ census'.weights = census.weights
                /\ store' = store]_vars

\* C18: AddBulk with slices of different lengths or with an address that is
\* in the census returns an error and leaves Size(), Root(), the three maps
\* and the store unchanged; AddBulk with empty slices succeeds and changes
\* nothing
C18_AddBulkRejects ==
    [][last'.op = "AddBulk"
          => /\ (last'.n # last'.k \/ last'.present)
                  => /\ ~last'.ok
                     /\ Size(nodes') = Size(nodes)
                     /\ Root(nodes') = Root(nodes)
                     /\ census'.addressIndex = census.addressIndex
                     /\ census'.indexToAddress = census.indexToAddress
                     /\ census'.weights = census.weights
                     /\ store' = store
             /\ (last'.n = 0 /\ last'.k = 0)
                  => /\ last'.ok
                     /\ nodes' = nodes
                     /\ census' = census
                     /\ store' = store]_vars

\* a rejected AddBulk of MaxBatch addresses, one of them in a census whose
\* entries are in the store
C18_Witness ==
    /\ last.op = "AddBulk"
    /\ ~last.ok
    /\ last.n = MaxBatch
    /\ last.k = MaxBatch
    /\ last.present
    /\ Size(nodes) > 0
    /\ Get(store, CensusSizeKey).ok

\* C19: Add of an address that is in the census returns
\* ErrAddressAlreadyExists and leaves Size(), Root(), the weight of the
\* address and the store unchanged; Add of an absent address appends
\* address * 2^WeightBits + weight at index Size() and makes Has true and
\* GetWeight the weight
C19_Add ==
    [][last'.op = "Add"
          => \A address \in Addresses, weight \in Weights :
                Add(address, weight)
                   => IF Has(census, address)
                      THEN /\ last'.err = "ErrAddressAlreadyExists"
                           /\ Size(nodes') = Size(nodes)
                           /\ Root(nodes') = Root(nodes)
                           /\ GetWeight(census', address)
                                 = GetWeight(census, address)
                           /\ store' = store
                      ELSE /\ last'.ok
                           /\ Leaves(nodes')
                                 = Append(Leaves(nodes),
                                          Leaf(address[1] * Pow2(WeightBits) + weight))
                           /\ census'.addressIndex[Hex(address)] = Size(nodes)
                           /\ Has(census', address)
                           /\ GetWeight(census', address)
                                 = [v |-> weight, ok |-> TRUE]]_vars

\* a rejected Add on a census whose entries are in the store
C19_Witness ==
    /\ last.op = "Add"
    /\ last.err = "ErrAddressAlreadyExists"
    /\ Size(nodes) > 0
    /\ Get(store, CensusSizeKey).ok

\* C20: GenerateProof of the census returns ErrAddressNotFound exactly for
\* the addresses that are not in the census; for a member it returns a proof
\* with the weight GetWeight gives and the root Root() gives, which verifies
\* for the leaf PackAddressWeight(address, weight)
C20_CensusProof ==
    \A address \in Addresses :
       \E r \in {CensusGenerateProof(nodes, census, address)} :
          /\ (r.err = "ErrAddressNotFound") <=> ~Has(census, address)
          /\ Has(census, address)
                => /\ r.err = ""
                   /\ r.proof.Weight = GetWeight(census, address).v
                   /\ r.proof.Root = Root(nodes).v
                   /\ VerifyProofWith(
                          [Root |-> r.proof.Root,
                           Leaf |-> PackAddressWeight(Big(address), r.proof.Weight),
                           Index |-> r.proof.Index,
                           Siblings |-> r.proof.Siblings])

\* C21: on a census of n leaves DumpRange(offset, limit) emits one
\* participant for each index from max(offset, 0) up to, not including,
\* min(max(offset, 0) + limit, n), in ascending order, limit = -1 standing
\* for n; nothing when offset >= n or limit = 0; Dump() emits what
\* DumpRange(0, -1) emits, the indices 0..n-1
C21_DumpRange ==
    /\ \A offset \in (-Pow2(IntBits - 1))..(Pow2(IntBits - 1) - 1) :
       \A limit \in (-1)..(Pow2(IntBits - 1) - 1) :
          \E lo \in {IF offset < 0 THEN 0 ELSE offset} :
          \E hi \in {IF limit = -1 \/ lo + limit > Size(nodes)
                      THEN Size(nodes) ELSE lo + limit} :
          \E out \in {DumpRange(nodes, census, offset, limit)} :
             /\ ~out.panic
             /\ Len(out.entries) = (IF hi > lo THEN hi - lo ELSE 0)
             /\ \A k \in 1..Len(out.entries) : out.entries[k].Index = lo + k - 1
             /\ (offset >= Size(nodes) \/ limit = 0) => out.entries = <<>>
    /\ \E out \in {DumpRange(nodes, census, 0, -1)} :
          /\ Len(out.entries) = Size(nodes)
          /\ \A k \in 1..Len(out.entries) : out.entries[k].Index = k - 1
\* C22: UpdateMany returns an error and writes no leaf or node when indices
\* and values differ in length, when some index is < 0 or >= Size(), or when
\* an index is repeated, with an error of its own for each case; UpdateMany
\* with empty inputs succeeds and leaves Root() and dirty unchanged.
C22_UpdateManyValidation ==
    [][last'.op = "UpdateMany" =>
       /\ last'.n # last'.k => last'.err = "no correspondence"
       /\ (last'.n = last'.k /\ last'.range /\ ~last'.repeated)
             => last'.err = "out of range"
       /\ (last'.n = last'.k /\ last'.repeated /\ ~last'.range)
             => last'.err = "repeated"
       /\ (last'.n = last'.k /\ last'.repeated /\ last'.range)
             => last'.err \in {"out of range", "repeated"}
       /\ (last'.n = last'.k /\ ~last'.repeated /\ ~last'.range)
             => last'.err = ""
       /\ last'.ok <=> last'.err = ""
       /\ ~last'.ok => nodes' = nodes /\ dirty' = dirty /\ store' = store
       /\ (last'.ok /\ last'.n = 0)
             => Root(nodes') = Root(nodes) /\ dirty' = dirty]_vars

\* an UpdateMany with a repeated valid index was refused on a tree of three leaves
C22_Witness ==
    /\ last.op = "UpdateMany" /\ ~last.ok
    /\ last.repeated /\ ~last.range /\ last.err = "repeated"
    /\ Size(nodes) = 3

\* C23: Update(i, v) and GenerateProof(i) with i < 0 or i >= Size(), and
\* InsertMany of an empty sequence, each return an error and leave the node
\* matrix, Size(), Root() and the dirty flag unchanged.
C23_InvalidCallsChangeNothing ==
    [][/\ (last'.op \in {"Update", "GenerateProof"} /\ last'.range) => ~last'.ok
       /\ (last'.op \in {"Update", "GenerateProof", "InsertMany"} /\ ~last'.ok)
             => /\ nodes' = nodes /\ dirty' = dirty
                /\ Size(nodes') = Size(nodes) /\ Root(nodes') = Root(nodes)
       /\ \A leaves \in {<<>>} : InsertMany(leaves) => ~last'.ok]_vars

\* an Update with an index out of range was refused on a clean, empty tree
C23_Witness ==
    /\ last.op = "Update" /\ last.range /\ ~last.ok
    /\ ~dirty /\ Size(nodes) = 0

\* C24: Close performs a final Sync and then releases the KV store; after a
\* first successful Close, calling Close again returns success and changes
\* neither the in-memory tree nor the store.
C24_CloseIdempotent ==
    [][last'.op = "Close" =>
       /\ (db = "open" /\ dirty) => store' = SyncTx(store, nodes) /\ ~dirty'
       /\ (db = "open" /\ ~dirty) => store' = store
       /\ db = "open" => db' = "closed" /\ last'.ok
       /\ db = "closed" => last'.ok /\ nodes' = nodes /\ store' = store
       /\ nodes' = nodes]_vars

\* C25: a census write is atomic for concurrent census readers: Root() and
\* Size() called from another thread while AddBulk runs return the value of
\* the state before the whole write or of the state after it, never that of a
\* tree holding only part of the batch.
C25_AtomicCensusWrite ==
    [][(last.op = "AddBulk.running" /\ reader' # reader) =>
       /\ reader'.pc = "Size" =>
             reader'.arg \in {Size(last.before),
                              Size(InsertEach(last.before, last.packedValues, 1))}
       /\ reader'.pc = "Root" =>
             reader'.leaf \in {Root(last.before).v,
                               Root(InsertEach(last.before, last.packedValues, 1)).v}]_vars

\* leaf index j is one of the path indices i >> l (l >= 1) of leaf i
OnAncestorPath(i, j) == \E l \in 1..Depth(nodes) : j = i \div Pow2(l)

\* C26 as stated: for distinct leaf indices i and j, after Update(j, v) with v
\* different from the old leaf, the proof generated for i before the update
\* fails against the new root iff j lies on the ancestor path of i; otherwise
\* recomputing from leaf i with the old siblings and index gives the new root.
C26_ProofLocality ==
    [][(last'.op = "Update" /\ last'.ok /\ nodes' # nodes) =>
       \A i, j \in 0..(Size(nodes) - 1) :
          (i # j /\ At(nodes', 0, j) # At(nodes, 0, j)) =>
             ((VerifyLoop(GenerateProof(nodes, i), 0, At(nodes, 0, i))
                  # Root(nodes').v)
              <=> OnAncestorPath(i, j))]_vars

\* C26 amended: for distinct leaf indices i and j, after Update(j, v) with v
\* different from the old leaf, recomputing from leaf i with the siblings and
\* index of the proof generated before the update gives the root the tree had
\* before the update, which is not the root after it, wherever j lies.
C26_OldProofGivesOldRoot ==
    [][(last'.op = "Update" /\ last'.ok /\ nodes' # nodes) =>
       \A i \in 0..(Size(nodes) - 1) :
          At(nodes', 0, i) = At(nodes, 0, i) =>
             /\ VerifyLoop(GenerateProof(nodes, i), 0, At(nodes, 0, i))
                   = Root(nodes).v
             /\ Root(nodes').v # Root(nodes).v]_vars

\* an Update has changed a leaf of a tree of three leaves since the last Sync
C26_Witness ==
    /\ last.op = "Update" /\ last.ok /\ dirty
    /\ Size(nodes) = 3
    /\ \E i \in 0..2 :
          /\ Get(store, LeafKey(i)).ok
          /\ BigIntDecoder(Get(store, LeafKey(i)).v) # At(nodes, 0, i)

\* C27: if the hash function panics during Insert, the node matrix (leaves
\* and every level), Size() and Root() are the same as before the call.
C27_HashPanicWritesNothing ==
    [][last'.err = "panic" =>
       /\ nodes' = nodes
       /\ Size(nodes') = Size(nodes)
       /\ Root(nodes') = Root(nodes)]_vars

\* the index on level l of the path of leaf i, whether that level has a
\* sibling to record, and how many levels below l have one
PathIndex(i, l) == i \div Pow2(l)
Recorded(i, l) ==
    PathIndex(i, l) % 2 = 1 \/ PathIndex(i, l) + 1 < Len(nodes[l + 1])
RecordedBefore(i, l) == Cardinality({m \in 0..(l - 1) : Recorded(i, m)})

\* C28: for every valid index i, GenerateProof(i) records, level by level from
\* 0 to Depth()-1 along the path of i, the left sibling with bit 1 when the
\* path index is odd, the right sibling with bit 0 when it is even and a right
\* sibling exists, and nothing otherwise; Index packs the recorded bits
\* LSB-first; len(Siblings) <= Depth() and len(Siblings) = 0 iff Size() = 1.
C28_ProofShape ==
    \A i \in 0..(Size(nodes) - 1) :
       LET p == GenerateProof(nodes, i)
           levels == {l \in 0..(Depth(nodes) - 1) : Recorded(i, l)}
       IN /\ Len(p.Siblings) = Cardinality(levels)
          /\ \A l \in levels :
                /\ p.Siblings[RecordedBefore(i, l) + 1]
                      = IF PathIndex(i, l) % 2 = 1
                        THEN At(nodes, l, PathIndex(i, l) - 1)
                        ELSE At(nodes, l, PathIndex(i, l) + 1)
                /\ (p.Index \div Pow2(RecordedBefore(i, l))) % 2
                      = PathIndex(i, l) % 2
          /\ p.Index < Pow2(Len(p.Siblings))
          /\ Len(p.Siblings) <= Depth(nodes)
          /\ (Len(p.Siblings) = 0 <=> Size(nodes) = 1)

\* a tree of five leaves: the proof of leaf 4 records only the top level (bit
\* 1), the proof of leaf 2 records bits 0, 1, 0
C28_Witness ==
    /\ Size(nodes) = 5
    /\ GenerateProof(nodes, 4).Index = 1
    /\ Len(GenerateProof(nodes, 4).Siblings) = 1
    /\ GenerateProof(nodes, 2).Index = 2
    /\ Len(GenerateProof(nodes, 2).Siblings) = 3

\* C29: a proof generated in one state of the tree is still accepted by
\* VerifyProof after any later Insert or Update, and on the tree reloaded
\* from the store, while its Root field equals the tree's current Root() only
\* as long as the root is the one the tree had when the proof was generated.
C29_KeptProofVerifies ==
    [][last'.op = "VerifyProof" =>
       /\ last'.ok
       /\ VerifyProofWith(reader.proof)
       /\ (reader.proof.Root = Root(nodes).v) <=> (reader.root = Root(nodes).v)]_vars

\* the kept proof was verified on a reopened tree whose root is no longer the
\* proof's
C29_Witness ==
    /\ last.op = "VerifyProof" /\ last.ok
    /\ reader.proof.Root # Root(nodes).v
    /\ db = "open" /\ ~dirty /\ Size(nodes) = 3
    /\ Len(reader.proof.Siblings) = 1
    /\ Get(store, MetaSizeKey).ok

\* the values put in place of x: its neighbours, and 0
Replacements(x) == {x + d : d \in (-(MaxLeaf + 1))..(MaxLeaf + 1)} \cup {0}

\* C30: with the reference hash, for every proof returned by GenerateProof,
\* replacing any single sibling, or the leaf, by a different value makes
\* VerifyProofWith return false; a proof with no siblings is accepted iff
\* leaf and root are equal, and a nil hash is always rejected.
C30_TamperedProofRejected ==
    \A i \in 0..(Size(nodes) - 1) :
       LET proof == BigIntProof(GenerateProof(nodes, i))
       IN /\ ~VerifyProofWithBigInt(proof, "nil")
          /\ \A k \in 1..Len(proof.Siblings) :
                \A v \in Replacements(proof.Siblings[k]) \ {proof.Siblings[k]} :
                   ~VerifyProofWithBigInt([proof EXCEPT !.Siblings[k] = v],
                                          "bigIntHasher")
          /\ \A v \in Replacements(proof.Leaf) \ {proof.Leaf} :
                ~VerifyProofWithBigInt([proof EXCEPT !.Leaf = v], "bigIntHasher")
          /\ Len(proof.Siblings) = 0 =>
                \A leaf, root \in Replacements(proof.Leaf) :
                   /\ VerifyProofWithBigInt([proof EXCEPT !.Leaf = leaf,
                                                          !.Root = root],
                                            "bigIntHasher") <=> leaf = root
                   /\ ~VerifyProofWithBigInt([proof EXCEPT !.Leaf = leaf,
                                                           !.Root = root], "nil")

\* a tree of five leaves, not all equal, whose proof of leaf 2 has three
\* siblings and is accepted under the reference hash before any replacement
C30_Witness ==
    /\ Size(nodes) = 5
    /\ At(nodes, 0, 2) # At(nodes, 0, 3)
    /\ Len(BigIntProof(GenerateProof(nodes, 2)).Siblings) = 3
    /\ VerifyProofWithBigInt(BigIntProof(GenerateProof(nodes, 2)), "bigIntHasher")

\* the leaves other than those with an index in skip are at their index,
\* unchanged, after the step
SameLeaves(skip) ==
    \A k \in (0..(Size(nodes) - 1)) \ skip :
       k < Size(nodes') /\ At(nodes', 0, k) = At(nodes, 0, k)

\* what the four writers may change: Insert and InsertMany only append,
\* Update and UpdateMany change only the leaves at the indices given
FrameOfWrites ==
    /\ last'.op = "Insert" => Size(nodes') = Size(nodes) + 1 /\ SameLeaves({})
    /\ last'.op = "InsertMany" =>
          /\ SameLeaves({})
          /\ IF last'.ok THEN Size(nodes') > Size(nodes)
             ELSE Size(nodes') = Size(nodes)
    /\ last'.op = "Update" =>
          /\ Size(nodes') = Size(nodes)
          /\ \A index \in (-1)..Size(nodes), newLeaf \in FrameLeaves :
                Update(index, newLeaf) => SameLeaves({index})
    /\ last'.op = "UpdateMany" =>
          /\ Size(nodes') = Size(nodes)
          /\ \A args \in FrameArgs(Size(nodes)) :
                UpdateMany(args[1], args[2]) =>
                   SameLeaves({args[1][i] : i \in 1..Len(args[1])})

\* C31 as stated: Insert and InsertMany write only at indices >= the previous
\* Size() and leave every existing leaf unchanged, Update and UpdateMany change
\* only the leaves at the given indices, and no operation on a tree handle
\* decreases Size() or moves a leaf to another index.
C31_Frame ==
    [][/\ FrameOfWrites
       /\ Size(nodes') >= Size(nodes)
       /\ last'.op \notin {"Update", "UpdateMany"} => SameLeaves({})]_vars

\* C31 amended: the same for Insert, InsertMany, Update and UpdateMany;
\* Load() replaces the leaves in memory by the leaves of the store, so it is
\* the one operation after which Size() can be smaller.
C31_FrameOfWriters ==
    [][/\ FrameOfWrites
       /\ last'.op # "Load" => Size(nodes') >= Size(nodes)]_vars

\* an UpdateMany of two indices has written MaxLeaf at two of three leaves and
\* the third is still 0
C31_Witness ==
    /\ last.op = "UpdateMany" /\ last.ok /\ last.n = 2 /\ ~last.repeated
    /\ Size(nodes) = 3
    /\ Cardinality({k \in 0..2 : At(nodes, 0, k) = Leaf(0)}) = 1

\* C32: a Dump() that read size n and runs in batches beside Add calls ends
\* without error, having written exactly the indices 0..n-1 in ascending order
\* (so at least the n participants present when it started, each index once),
\* each entry with the address and the weight the census holds at that index
C32_DumpBesideAdd ==
    reader.pc \in {"Dump.batch", "Dump.done"} =>
       /\ reader.ok
       /\ reader.arg <= Size(nodes)
       /\ reader.pc = "Dump.done" => Len(reader.entries) = reader.arg
       /\ \A k \in 1..Len(reader.entries) :
             LET p == reader.entries[k]
             IN /\ p.Index = k - 1
                /\ (k - 1) \in DOMAIN census.indexToAddress
                /\ Hex(p.Address) = census.indexToAddress[k - 1]
                /\ p.Weight = census.weights[census.indexToAddress[k - 1]]
                /\ At(nodes, 0, k - 1) = PackAddressWeight(Big(p.Address), p.Weight)

\* a dump that read a size of three has ended in two batches, and an Add ran
\* between the two
C32_Witness ==
    /\ reader.pc = "Dump.done"
    /\ reader.arg = 3
    /\ reader.sizes = <<3, 4>>

\* the census after a successful import of the participants, as C33 has it
Imported(participants) ==
    LET members == {i \in 1..Len(participants) : ~isEmptyParticipant(participants[i])}
        largest == CHOOSE m \in {participants[i].Index : i \in 1..Len(participants)} :
                      \A i \in 1..Len(participants) : participants[i].Index <= m
    IN /\ Size(nodes') = largest + 1
       /\ \A i \in members :
             LET q == participants[i]
             IN /\ Hex(q.Address) \in DOMAIN census'.addressIndex
                /\ census'.addressIndex[Hex(q.Address)] = q.Index
                /\ q.Index < Size(nodes')
                /\ At(nodes', 0, q.Index) = PackAddressWeight(Big(q.Address), q.Weight)
       /\ \A k \in 0..(Size(nodes') - 1) :
             (\A i \in members : participants[i].Index # k)
                => /\ At(nodes', 0, k) = Leaf(0)
                   /\ k \notin DOMAIN census'.indexToAddress
                   /\ \A a \in DOMAIN census'.addressIndex :
                         census'.addressIndex[a] # k

\* C33: after a successful ImportAll or Import, Size() is the largest
\* participant index plus one, every non-empty participant is recorded under
\* its index with its packed leaf at that index, and every other index holds
\* the zero leaf and no map entry, whatever the order of the participants
\* and also when two of them declare the same index
C33_ImportLayout ==
    [][\A participants \in ParticipantSeqs \ {<<>>} :
          \A root \in DeclaredRoots(participants) :
             (/\ last'.ok
              /\ last'.k = Len(participants)
              /\ \/ ImportAll([Root |-> root, Participants |-> participants])
                 \/ Import(root, participants))
                => Imported(participants)]_vars

\* the call was rejected and wrote nothing
Rejected ==
    /\ ~last'.ok
    /\ UNCHANGED <<nodes, dirty, store>>
    /\ census'.addressIndex = census.addressIndex
    /\ census'.indexToAddress = census.indexToAddress
    /\ census'.weights = census.weights

\* C34: Add, AddBulk and Update of the census with a weight of 2^WeightBits
\* or more (2^88 in the source) never succeed and leave the tree, the three
\* maps and the store as they were
C34_WideWeightRejected ==
    [][("wide" \in DOMAIN last' /\ last' # last) => Rejected]_vars

\* a call has panicked on a census with a member, and the member, its leaf
\* and its keys are in place
C34_Witness ==
    /\ last.op \in {"Add", "AddBulk", "Census.Update"}
    /\ last.err = "panic"
    /\ Size(nodes) = 1
    /\ \E address \in Addresses :
          /\ GetWeight(census, address).ok
          /\ At(nodes, 0, 0) = PackAddressWeight(Big(address), GetWeight(census, address).v)
          /\ Get(store, WeightKey(Hex(address))).ok
    /\ Get(store, CensusSizeKey).ok

\* C35: a persistent census opened after a crash, also one after an Add or
\* AddBulk that was not followed by a Sync of the tree, is consistent: every
\* address of the maps has an index below Size() with its packed leaf there,
\* GenerateProof succeeds for it, and no two addresses share an index (a later
\* Add takes a free index)
C35_ConsistentAfterCrash ==
    (db = "open" /\ ~census.failed) =>
       \A address \in Addresses :
          Has(census, address) =>
             /\ census.addressIndex[Hex(address)] < Size(nodes)
             /\ At(nodes, 0, census.addressIndex[Hex(address)])
                   = PackAddressWeight(Big(address), GetWeight(census, address).v)
             /\ CensusGenerateProof(nodes, census, address).err = ""
             /\ census.indexToAddress[census.addressIndex[Hex(address)]] = Hex(address)

\* C36: a census that holds a successful import with empty slots (tree
\* indices without a participant) and was synced and closed is opened again
\* by NewCensusIMT without error, with the same Size(), Root() and members
C36_ReopenImported ==
    [][(/\ db = "closed"
        /\ ~census.failed
        /\ \E k \in 0..(Size(nodes) - 1) : k \notin DOMAIN census.indexToAddress
        /\ last'.op = "NewCensusIMT")
          => /\ last'.ok
             /\ Size(nodes') = Size(nodes)
             /\ Root(nodes') = Root(nodes)
             /\ \A address \in Addresses :
                   /\ Has(census', address) = Has(census, address)
                   /\ GetWeight(census', address) = GetWeight(census, address)]_vars

\* C37: New on a store whose meta:size is n > 0 and where a leaf:<i> with
\* i < n is missing returns an error, never a tree (BigIntDecoder decodes
\* every value, so no leaf of the store is undecodable)
C37_NewFailsOnMissingLeaf ==
    [][(/\ db = "closed"
        /\ last'.op = "New"
        /\ Get(store, MetaSizeKey).ok
        /\ \E i \in 0..(decodeInt(Get(store, MetaSizeKey).v) - 1) :
              ~Get(store, LeafKey(i)).ok)
          => (~last'.ok /\ db' = "closed")]_vars

\* Update(A, w') of the census, one call: a member keeps its index and gets
\* the weight and the leaf, nothing else changes; no member, no change
CensusUpdateStep ==
    \A address \in Addresses, newWeight \in Weights :
       (/\ last'.op = "Census.Update"
        /\ last'.ok = Has(census, address)
        /\ last'.ok => census'.weights[Hex(address)] = newWeight
        /\ CensusUpdate(address, newWeight)) =>
          IF Has(census, address)
          THEN /\ last'.ok
               /\ Size(nodes') = Size(nodes)
               /\ census'.addressIndex = census.addressIndex
               /\ census'.indexToAddress = census.indexToAddress
               /\ GetWeight(census', address) = [v |-> newWeight, ok |-> TRUE]
               /\ At(nodes', 0, census.addressIndex[Hex(address)])
                     = PackAddressWeight(Big(address), newWeight)
               /\ \A other \in Addresses \ {address} :
                     /\ GetWeight(census', other) = GetWeight(census, other)
                     /\ Has(census, other) =>
                           At(nodes', 0, census.addressIndex[Hex(other)])
                              = At(nodes, 0, census.addressIndex[Hex(other)])
          ELSE /\ last'.err = "ErrAddressNotFound"
               /\ UNCHANGED <<nodes, dirty, store>>
               /\ census'.addressIndex = census.addressIndex
               /\ census'.indexToAddress = census.indexToAddress
               /\ census'.weights = census.weights

\* C38: Update(A, w') of the census for a member A keeps the index of A and
\* Size(), makes GetWeight(A) = w' and the leaf at the index of A
\* pack(A, w'), leaves index, weight and leaf of every other address as they
\* were, and for an address that is no member it returns ErrAddressNotFound
\* and changes nothing; the census opened after a Close has the weights the
\* closed one had, so GetWeight(A) = w' after Close and reopening
C38_CensusUpdateFrame ==
    [][/\ CensusUpdateStep
       /\ (db = "closed" /\ last'.op = "NewCensusIMT")
             => /\ last'.ok
                /\ \A address \in Addresses :
                      /\ GetWeight(census', address) = GetWeight(census, address)
                      /\ Has(census', address) =>
                            /\ census'.addressIndex[Hex(address)]
                                  = census.addressIndex[Hex(address)]
                            /\ At(nodes', 0, census'.addressIndex[Hex(address)])
                                  = PackAddressWeight(Big(address),
                                                      GetWeight(census, address).v)]_vars

\* an Update has given the member at index 0 of a full census the weight
\* MaxWeight, in the maps and in the store, and the other member has weight 0
C38_Witness ==
    /\ last.op = "Census.Update" /\ last.ok
    /\ db = "open"
    /\ Size(nodes) = MaxCensus
    /\ \E address \in Addresses :
          /\ Has(census, address)
          /\ census.addressIndex[Hex(address)] = 0
          /\ GetWeight(census, address).v = MaxWeight
          /\ SetBytes(Get(store, WeightKey(Hex(address))).v) = MaxWeight
          /\ At(nodes, 0, 0) = PackAddressWeight(Big(address), MaxWeight)
    /\ \E other \in Addresses :
          /\ Has(census, other)
          /\ census.addressIndex[Hex(other)] = MaxCensus - 1
          /\ GetWeight(census, other).v = 0

\* the leaves a successful InsertMany step has appended
Appended == SubSeq(nodes'[1], Size(nodes) + 1, Size(nodes'))

\* C39: on any tree reached by earlier calls, InsertMany(L) gives the node
\* matrix that Insert(L[0]), ..., Insert(L[n-1]) give on an equal tree, level
\* by level, and InsertMany(L1) followed by InsertMany(L2) gives the matrix
\* of InsertMany(L1 ++ L2)
C39_InsertManyAsInserts ==
    [][(nodes = seqNodes /\ last'.op = "InsertMany" /\ last'.ok)
          => /\ nodes' = seqNodes'
             /\ \A k \in 1..(Len(Appended) - 1) :
                   InsertManyOp(InsertManyOp(nodes, SubSeq(Appended, 1, k)),
                                SubSeq(Appended, k + 1, Len(Appended)))
                      = nodes']_vars

\* an InsertMany of three leaves on a tree of two leaves of which one was
\* updated, equal to the tree of the single inserts
C39_Witness ==
    /\ last.op = "InsertMany" /\ last.ok /\ last.n = 2
    /\ Size(nodes) = 5
    /\ At(nodes, 0, 0) # At(nodes, 0, 1)
    /\ nodes = seqNodes

====
